---- MODULE Spec2Model ----
(***************************************************************************)
(* Model of hack-solver: the Sequence Matcher and the glyph identifier     *)
(* (src/matcher.js), the Templates cache and the Cell Processor            *)
(* (src/unnamed/part_004), the Grid Detector (src/unnamed/part_003) and    *)
(* the text functions of the OCR module (src/ocr.js,                       *)
(* src/unnamed/part_000).  Each component has its own specification.       *)
(*                                                                         *)
(* A code is a sequence of one-character strings.  JavaScript arrays are   *)
(* 0-based; the sequences below are 1-based, so grid index g is element    *)
(* g + 1.  A nullable array argument is <<>> for null and <<a>> for the    *)
(* array a.  A returned null is the record Null.                           *)
(*                                                                         *)
(* Text scores are multiples of 0.5 in the source; they are held here as   *)
(* integers counting ScoreUnit-ths (ScoreUnit = 2 per 1.0).  Confidences   *)
(* are exact rationals [num, den] in lowest terms.                         *)
(***************************************************************************)
EXTENDS Integers, Sequences, FiniteSets, TLC

VARIABLES pc, op, targetCodes, gridCodes, targetCells, gridCells, ensemble,
          totalCells, input, generated, synthesized, app, camera, ocr,
          result

vars == <<pc, op, targetCodes, gridCodes, targetCells, gridCells, ensemble,
          totalCells, input, generated, synthesized, app, camera, ocr,
          result>>

(***************************************************************************)
(* Bounds of the model.                                                    *)
(***************************************************************************)
MaxTargetLen == 4
MaxGridLen == 5
MaxCells == 120
MaxDist == 2

(***************************************************************************)
(* Arithmetic helpers.                                                     *)
(***************************************************************************)
RECURSIVE GCD(_, _)
GCD(a, b) == IF b = 0 THEN a ELSE GCD(b, a % b)

Rat(n, d) ==
    IF n = 0 THEN [num |-> 0, den |-> 1]
    ELSE [num |-> n \div GCD(n, d), den |-> d \div GCD(n, d)]

RatLess(a, b) == a.num * b.den < b.num * a.den

RatMin(a, b) == IF RatLess(b, a) THEN b ELSE a

RatMax(a, b) == IF RatLess(a, b) THEN b ELSE a

One == Rat(1, 1)

Zero == Rat(0, 1)

(* JavaScript Infinity: greater than every number, not less than itself.   *)
Infinity == -1

Less(a, b) == a /= Infinity /\ (b = Infinity \/ a < b)

Null == [null |-> TRUE]

(* No App, Camera or OCR module takes part.                                *)
NoApp == app = Null /\ camera = Null /\ ocr = Null

(***************************************************************************)
(* estimateColumns                                                         *)
(***************************************************************************)
(* Faulty variant: the loop stops before trying 7.                                 *)
RECURSIVE DivisorScan_skip7(_, _)
DivisorScan_skip7(totalCellsArg, c) ==
    IF c <= 7 THEN 10
    ELSE IF totalCellsArg % c = 0 THEN c
    ELSE DivisorScan_skip7(totalCellsArg, c - 1)

(* The loop of lines 174-177, from candidate c downwards.                  *)
RECURSIVE DivisorScan(_, _)
DivisorScan(totalCellsArg, c) ==
    IF c < 7 THEN 10
    ELSE IF totalCellsArg % c = 0 THEN c
    ELSE DivisorScan(totalCellsArg, c - 1)

estimateColumns(totalCellsArg) ==
    IF totalCellsArg >= 75 /\ totalCellsArg <= 85 THEN 10
    ELSE IF totalCellsArg >= 55 /\ totalCellsArg <= 65 THEN 10
    ELSE DivisorScan(totalCellsArg, 10)

(***************************************************************************)
(* findMatchByText                                                         *)
(***************************************************************************)
ScoreUnit == 2

MaxFuzzyCost == 3

MinConfidence == Rat(1, 10)

(* The codes of the bounded inputs: a one-character code (a dropped        *)
(* character) and two codes that differ in one character.                  *)
Codes == {<<"1">>, <<"1", "2">>, <<"2", "2">>}

startsWith(b, a) ==
    Len(a) <= Len(b) /\ \A c \in 1..Len(a) : b[c] = a[c]

charDiffs(a, b) == Cardinality({c \in 1..Len(a) : a[c] /= b[c]})

(* Faulty variant: the prefix test is made the wrong way round (a.startsWith(b)).  *)
codeCost_prefixSwapped(a, b) ==
    IF a = b THEN 0
    ELSE IF Len(a) = Len(b) THEN ScoreUnit * charDiffs(a, b)
    ELSE IF Len(a) < Len(b) /\ startsWith(a, b) THEN ScoreUnit \div 2
    ELSE IF Len(a) > 0 /\ Len(b) > 0 /\ a[1] = b[1] THEN ScoreUnit * 1
    ELSE ScoreUnit * 2

(* Faulty variant: a dropped trailing character costs nothing.                     *)
codeCost_prefixFree(a, b) ==
    IF a = b THEN 0
    ELSE IF Len(a) = Len(b) THEN ScoreUnit * charDiffs(a, b)
    ELSE IF Len(a) < Len(b) /\ startsWith(b, a) THEN 0
    ELSE IF Len(a) > 0 /\ Len(b) > 0 /\ a[1] = b[1] THEN ScoreUnit * 1
    ELSE ScoreUnit * 2

(* Faulty variant: an unreadable character "?" differs from nothing.       *)
codeCost_wildcard(a, b) ==
    IF a = b THEN 0
    ELSE IF Len(a) = Len(b)
    THEN ScoreUnit * Cardinality({c \in 1..Len(a) :
                         a[c] /= b[c] /\ a[c] /= "?" /\ b[c] /= "?"})
    ELSE IF Len(a) < Len(b) /\ startsWith(b, a) THEN ScoreUnit \div 2
    ELSE IF Len(a) > 0 /\ Len(b) > 0 /\ a[1] = b[1] THEN ScoreUnit * 1
    ELSE ScoreUnit * 2

(* Cost of aligning target code a with grid code b (lines 223-238).        *)
codeCost(a, b) ==
    IF a = b THEN 0
    ELSE IF Len(a) = Len(b) THEN ScoreUnit * charDiffs(a, b)
    ELSE IF Len(a) < Len(b) /\ startsWith(b, a) THEN ScoreUnit \div 2
    ELSE IF Len(a) > 0 /\ Len(b) > 0 /\ a[1] = b[1] THEN ScoreUnit * 1
    ELSE ScoreUnit * 2

(* Faulty variant: the index is clamped to the last cell instead of wrapping.       *)
gridIdx_clamped(pos, t, numCodes) ==
    IF pos + t >= numCodes THEN numCodes - 1 ELSE pos + t

gridIdx(pos, t, numCodes) == (pos + t) % numCodes

(* Inner loop of the exact pass, from target slot t on.                    *)
RECURSIVE exactFrom(_, _, _, _)
exactFrom(tc, gc, pos, t) ==
    IF t >= Len(tc) THEN TRUE
    ELSE IF gc[gridIdx(pos, t, Len(gc)) + 1] /= tc[t + 1] THEN FALSE
    ELSE exactFrom(tc, gc, pos, t + 1)

(* Faulty variant: the exact pass keeps the last matching position.        *)
RECURSIVE exactScan_lastHit(_, _, _)
exactScan_lastHit(tc, gc, pos) ==
    IF pos >= Len(gc) THEN -1
    ELSE LET later == exactScan_lastHit(tc, gc, pos + 1)
         IN  IF later /= -1 THEN later
             ELSE IF exactFrom(tc, gc, pos, 0) THEN pos
             ELSE -1

(* Outer loop of the exact pass: first matching position, or -1.           *)
RECURSIVE exactScan(_, _, _)
exactScan(tc, gc, pos) ==
    IF pos >= Len(gc) THEN -1
    ELSE IF exactFrom(tc, gc, pos, 0) THEN pos
    ELSE exactScan(tc, gc, pos + 1)

(* Inner loop of the fuzzy pass: totalScore of position pos.               *)
RECURSIVE totalScore(_, _, _, _)
totalScore(tc, gc, pos, t) ==
    IF t >= Len(tc) THEN 0
    ELSE codeCost(tc[t + 1], gc[gridIdx(pos, t, Len(gc)) + 1])
         + totalScore(tc, gc, pos, t + 1)

(* Faulty variant: a position that ties with the best replaces it.                 *)
RECURSIVE fuzzyScan_lastWins(_, _, _, _)
fuzzyScan_lastWins(tc, gc, pos, st) ==
    IF pos >= Len(gc) THEN st
    ELSE LET total == totalScore(tc, gc, pos, 0)
         IN  IF Less(total, st.bestScore) \/ total = st.bestScore
             THEN fuzzyScan_lastWins(tc, gc, pos + 1,
                     [bestPos |-> pos, bestScore |-> total,
                      secondBest |-> st.bestScore])
             ELSE IF Less(total, st.secondBest)
             THEN fuzzyScan_lastWins(tc, gc, pos + 1,
                     [st EXCEPT !.secondBest = total])
             ELSE fuzzyScan_lastWins(tc, gc, pos + 1, st)

(* Faulty variant: secondBest is only set when the best is replaced.               *)
RECURSIVE fuzzyScan_noRunnerUp(_, _, _, _)
fuzzyScan_noRunnerUp(tc, gc, pos, st) ==
    IF pos >= Len(gc) THEN st
    ELSE LET total == totalScore(tc, gc, pos, 0)
         IN  IF Less(total, st.bestScore)
             THEN fuzzyScan_noRunnerUp(tc, gc, pos + 1,
                     [bestPos |-> pos, bestScore |-> total,
                      secondBest |-> st.bestScore])
             ELSE fuzzyScan_noRunnerUp(tc, gc, pos + 1, st)

(* Outer loop of the fuzzy pass over st = [bestPos, bestScore, secondBest].*)
RECURSIVE fuzzyScan(_, _, _, _)
fuzzyScan(tc, gc, pos, st) ==
    IF pos >= Len(gc) THEN st
    ELSE LET total == totalScore(tc, gc, pos, 0)
         IN  IF Less(total, st.bestScore)
             THEN fuzzyScan(tc, gc, pos + 1,
                     [bestPos |-> pos, bestScore |-> total,
                      secondBest |-> st.bestScore])
             ELSE IF Less(total, st.secondBest)
             THEN fuzzyScan(tc, gc, pos + 1, [st EXCEPT !.secondBest = total])
             ELSE fuzzyScan(tc, gc, pos + 1, st)

(* gap = secondBest - bestScore; Infinity - x is Infinity.                  *)
fuzzyConfidence(gap, numTargets) ==
    IF gap = Infinity THEN RatMax(MinConfidence, One)
    ELSE IF gap > 0
    THEN RatMax(MinConfidence, RatMin(One, Rat(gap, ScoreUnit * numTargets)))
    ELSE MinConfidence

(* Faulty variant: the row is left 0-based.                                        *)
matchResult_rowZeroBased(pos, cols, score, confidence) ==
    [position |-> pos, row |-> pos \div cols, col |-> (pos % cols) + 1,
     cols |-> cols, score |-> score, confidence |-> confidence]

matchResult(pos, cols, score, confidence) ==
    [position |-> pos, row |-> (pos \div cols) + 1, col |-> (pos % cols) + 1,
     cols |-> cols, score |-> score, confidence |-> confidence]

(* Faulty variant: a single-code target is let through.                            *)
tooShort_oneCode(tc, gc) == Len(tc) < 1 \/ Len(gc) < 4

(* Line 187.                                                               *)
tooShort(tc, gc) == Len(tc) < 2 \/ Len(gc) < 4

(* Faulty variant: the cost ceiling is exclusive.                                  *)
acceptBest_exclusive(st) ==
    /\ st.bestPos >= 0
    /\ st.bestScore /= Infinity
    /\ st.bestScore < MaxFuzzyCost * ScoreUnit

(* Line 249: bestPos >= 0 && bestScore <= 3.                               *)
acceptBest(st) ==
    /\ st.bestPos >= 0
    /\ st.bestScore /= Infinity
    /\ st.bestScore <= MaxFuzzyCost * ScoreUnit

findMatchByText(tcArg, gcArg) ==
    IF tcArg = <<>> \/ gcArg = <<>> THEN Null
    ELSE LET tc == tcArg[1]
             gc == gcArg[1]
         IN
    IF tooShort(tc, gc) THEN Null
    ELSE LET cols == estimateColumns(Len(gc))
             exact == exactScan(tc, gc, 0)
         IN
    IF exact >= 0 THEN matchResult(exact, cols, 0, One)
    ELSE LET st == fuzzyScan(tc, gc, 0,
                     [bestPos |-> -1, bestScore |-> Infinity,
                      secondBest |-> Infinity])
         IN
    IF acceptBest(st)
    THEN matchResult(st.bestPos, cols, st.bestScore,
             fuzzyConfidence(IF st.secondBest = Infinity THEN Infinity
                             ELSE st.secondBest - st.bestScore,
                             Len(tc)))
    ELSE Null

(***************************************************************************)
(* Inputs and actions of the text matcher.                                 *)
(***************************************************************************)
SeqsOf(S, lo, hi) == UNION {[1..n -> S] : n \in lo..hi}

TextTargets == {<<>>} \cup {<<tc>> : tc \in SeqsOf(Codes, 0, MaxTargetLen)}

TextGrids == {<<>>} \cup {<<gc>> : gc \in SeqsOf(Codes, 0, MaxGridLen)}

InitText ==
    /\ pc = "call"
    /\ op = "findMatchByText"
    /\ targetCodes \in TextTargets
    /\ gridCodes \in TextGrids
    /\ targetCells = <<>>
    /\ gridCells = <<>>
    /\ ensemble = <<>>
    /\ totalCells = 0
    /\ input = Null
    /\ generated = <<>>
    /\ synthesized = <<>>
    /\ NoApp
    /\ result = Null

FindMatchByText ==
    /\ pc = "call"
    /\ op = "findMatchByText"
    /\ result' = findMatchByText(targetCodes, gridCodes)
    /\ pc' = "done"
    /\ UNCHANGED <<op, targetCodes, gridCodes, targetCells, gridCells,
                   ensemble, totalCells, input, generated, synthesized,
                   app, camera, ocr>>

NextText == FindMatchByText

SpecText == InitText /\ [][NextText]_vars

(***************************************************************************)
(* findMatch (pixel-ensemble mode).                                        *)
(*                                                                         *)
(* A normalized sample is one of the values of Samples.  The distance      *)
(* (1 - nccFull) + (1 - nccHalf) + hamVal * 0.5 of a target sample and a   *)
(* grid sample is a function of the two samples only; it is the table      *)
(* ensemble, any symmetric table of non-negative values, fixed per call.   *)
(***************************************************************************)
Samples == {"s1", "s2"}

NaN == [num |-> 0, den |-> 0]

Min2(a, b) == IF a < b THEN a ELSE b

(* Inner loop of lines 110-124: total of position pos from offset t2 on.   *)
RECURSIVE ensembleTotal(_, _, _, _, _, _)
ensembleTotal(tCells, gCells, dist, numTargets, pos, t2) ==
    IF t2 >= numTargets THEN 0
    ELSE dist[<<tCells[t2 + 1], gCells[gridIdx(pos, t2, Len(gCells)) + 1]>>]
         + ensembleTotal(tCells, gCells, dist, numTargets, pos, t2 + 1)

(* scores[pos] for pos in 0..numGridCells-1 (lines 106-126).               *)
scoresOf(tCells, gCells, dist) ==
    [pos \in 0..(Len(gCells) - 1) |->
        ensembleTotal(tCells, gCells, dist, Min2(4, Len(tCells)), pos, 0)]

topInit ==
    << [pos |-> 0, score |-> Infinity],
       [pos |-> 0, score |-> Infinity],
       [pos |-> 0, score |-> Infinity] >>

(* Faulty variant: the new entry is not bubbled above the first place.             *)
topStep_oneSwap(top, i, s) ==
    IF Less(s, top[3].score)
    THEN LET a == [top EXCEPT ![3] = [pos |-> i, score |-> s]]
         IN  IF Less(a[3].score, a[2].score)
             THEN [a EXCEPT ![2] = a[3], ![3] = a[2]]
             ELSE a
    ELSE top

(* One iteration of the top-3 loop (lines 136-144).                        *)
topStep(top, i, s) ==
    IF Less(s, top[3].score)
    THEN LET a == [top EXCEPT ![3] = [pos |-> i, score |-> s]]
             b == IF Less(a[3].score, a[2].score)
                  THEN [a EXCEPT ![2] = a[3], ![3] = a[2]]
                  ELSE a
         IN  IF Less(b[2].score, b[1].score)
             THEN [b EXCEPT ![1] = b[2], ![2] = b[1]]
             ELSE b
    ELSE top

RECURSIVE topScan(_, _, _, _)
topScan(scores, n, i, top) ==
    IF i >= n THEN top
    ELSE topScan(scores, n, i + 1, topStep(top, i, scores[i]))

(* Lines 147-149.                                                          *)
pixelConfidence(top) ==
    IF top[2].score = Infinity
    THEN NaN
    ELSE IF top[2].score > 0
    THEN IF top[1].score = Infinity THEN NaN
         ELSE RatMin(One, Rat(top[2].score - top[1].score, top[2].score))
    ELSE Zero

top3Entry(m, cols) ==
    [pos |-> m.pos, row |-> (m.pos \div cols) + 1, col |-> (m.pos % cols) + 1,
     score |-> m.score]

findMatch(tCells, gCells, dist) ==
    IF Len(tCells) < 4 \/ Len(gCells) < 4 THEN Null
    ELSE LET scores == scoresOf(tCells, gCells, dist)
             top == topScan(scores, Len(gCells), 0, topInit)
             cols == estimateColumns(Len(gCells))
         IN  [position |-> top[1].pos,
              row |-> (top[1].pos \div cols) + 1,
              col |-> (top[1].pos % cols) + 1,
              cols |-> cols,
              score |-> top[1].score,
              confidence |-> pixelConfidence(top),
              top3 |-> [k \in 1..3 |-> top3Entry(top[k], cols)]]

Ensembles ==
    {d \in [Samples \X Samples -> 0..MaxDist] :
        \A x, y \in Samples : d[<<x, y>>] = d[<<y, x>>]}

InitPixel ==
    /\ pc = "call"
    /\ op = "findMatch"
    /\ targetCodes = <<>>
    /\ gridCodes = <<>>
    /\ targetCells \in SeqsOf(Samples, 3, MaxTargetLen + 1)
    /\ gridCells \in SeqsOf(Samples, 3, MaxGridLen)
    /\ ensemble \in Ensembles
    /\ totalCells = 0
    /\ input = Null
    /\ generated = <<>>
    /\ synthesized = <<>>
    /\ NoApp
    /\ result = Null

FindMatch ==
    /\ pc = "call"
    /\ op = "findMatch"
    /\ result' = findMatch(targetCells, gridCells, ensemble)
    /\ pc' = "done"
    /\ UNCHANGED <<op, targetCodes, gridCodes, targetCells, gridCells,
                   ensemble, totalCells, input, generated, synthesized,
                   app, camera, ocr>>

NextPixel == FindMatch

SpecPixel == InitPixel /\ [][NextPixel]_vars

(***************************************************************************)
(* estimateColumns on its own, for the grid lengths the matchers pass on   *)
(* (at least 4 cells).                                                     *)
(***************************************************************************)
InitCols ==
    /\ pc = "call"
    /\ op = "estimateColumns"
    /\ targetCodes = <<>>
    /\ gridCodes = <<>>
    /\ targetCells = <<>>
    /\ gridCells = <<>>
    /\ ensemble = <<>>
    /\ totalCells \in 4..MaxCells
    /\ input = Null
    /\ generated = <<>>
    /\ synthesized = <<>>
    /\ NoApp
    /\ result = Null

EstimateColumns ==
    /\ pc = "call"
    /\ op = "estimateColumns"
    /\ result' = [cols |-> estimateColumns(totalCells)]
    /\ pc' = "done"
    /\ UNCHANGED <<op, targetCodes, gridCodes, targetCells, gridCells,
                   ensemble, totalCells, input, generated, synthesized,
                   app, camera, ocr>>

NextCols == EstimateColumns

SpecCols == InitCols /\ [][NextCols]_vars

(***************************************************************************)
(* The 80-code numeric grid of the ground-truth test, matched against      *)
(* every 4-code window of itself and the test's two misread targets.       *)
(***************************************************************************)
GroundTruthGrid ==
<<
    <<"5", "1">>, <<"4", "1">>, <<"7", "5">>, <<"6", "6">>, <<"3", "6">>, <<"7", "1">>, <<"9", "3">>, <<"8", "5">>, <<"4", "9">>, <<"8", "8">>,
    <<"2", "4">>, <<"1", "1">>, <<"2", "5">>, <<"2", "9">>, <<"4", "5">>, <<"1", "4">>, <<"6", "0">>, <<"4", "9">>, <<"0", "1">>, <<"6", "8">>,
    <<"3", "9">>, <<"1", "2">>, <<"9", "4">>, <<"8", "8">>, <<"6", "5">>, <<"1", "3">>, <<"0", "5">>, <<"1", "7">>, <<"2", "8">>, <<"8", "9">>,
    <<"5", "0">>, <<"4", "1">>, <<"5", "4">>, <<"9", "1">>, <<"8", "8">>, <<"7", "9">>, <<"3", "7">>, <<"5", "2">>, <<"8", "7">>, <<"4", "4">>,
    <<"2", "9">>, <<"0", "0">>, <<"7", "8">>, <<"2", "8">>, <<"9", "8">>, <<"9", "4">>, <<"5", "5">>, <<"9", "1">>, <<"1", "4">>, <<"2", "7">>,
    <<"8", "1">>, <<"5", "0">>, <<"9", "7">>, <<"3", "3">>, <<"8", "5">>, <<"2", "8">>, <<"2", "1">>, <<"8", "4">>, <<"4", "3">>, <<"6", "2">>,
    <<"6", "7">>, <<"0", "3">>, <<"5", "6">>, <<"5", "0">>, <<"3", "4">>, <<"1", "6">>, <<"7", "7">>, <<"4", "3">>, <<"9", "0">>, <<"5", "8">>,
    <<"6", "4">>, <<"0", "2">>, <<"9", "1">>, <<"5", "9">>, <<"8", "2">>, <<"2", "6">>, <<"3", "5">>, <<"2", "3">>, <<"8", "1">>, <<"1", "6">>
>>

GroundTruthTarget == << <<"2", "8">>, <<"9", "8">>, <<"9", "4">>, <<"5", "5">> >>

Window(gc, p, n) == [t \in 1..n |-> gc[((p + t - 1) % Len(gc)) + 1]]

GroundTargets ==
    {Window(GroundTruthGrid, p, 4) : p \in 0..(Len(GroundTruthGrid) - 1)}
    \cup {GroundTruthTarget,
          << <<"2", "8">>, <<"9", "8">>, <<"9", "4">>, <<"5", "6">> >>,
          << <<"2", "8">>, <<"9">>, <<"9", "4">>, <<"5", "5">> >>}

InitGround ==
    /\ pc = "call"
    /\ op = "findMatchByText"
    /\ targetCodes \in {<<tc>> : tc \in GroundTargets}
    /\ gridCodes = <<GroundTruthGrid>>
    /\ targetCells = <<>>
    /\ gridCells = <<>>
    /\ ensemble = <<>>
    /\ totalCells = 0
    /\ input = Null
    /\ generated = <<>>
    /\ synthesized = <<>>
    /\ NoApp
    /\ result = Null

(***************************************************************************)
(* Both matchers together.                                                 *)
(***************************************************************************)
InitMatcher == InitText \/ InitPixel \/ InitGround

NextMatcher == FindMatchByText \/ FindMatch

SpecMatcher == InitMatcher /\ [][NextMatcher]_vars

(***************************************************************************)
(* findMatchByText on codes that come out of identifyCode and ocrGrid with *)
(* unreadable parts: "??" for a cell that could not be read at all         *)
(* (ocr.js:380-386, matcher.js:272), "?2" for one unreadable half.         *)
(***************************************************************************)
Sentinel == <<"?", "?">>

SentinelCodes == {Sentinel, <<"?", "2">>, <<"1", "2">>}

InitSentinel ==
    /\ pc = "call"
    /\ op = "findMatchByText"
    /\ targetCodes \in {<<tc>> : tc \in SeqsOf(SentinelCodes, 2, MaxTargetLen)}
    /\ gridCodes \in {<<gc>> : gc \in SeqsOf(SentinelCodes, 4, MaxGridLen)}
    /\ targetCells = <<>>
    /\ gridCells = <<>>
    /\ ensemble = <<>>
    /\ totalCells = 0
    /\ input = Null
    /\ generated = <<>>
    /\ synthesized = <<>>
    /\ NoApp
    /\ result = Null

NextSentinel == FindMatchByText

SpecSentinel == InitSentinel /\ [][NextSentinel]_vars

(***************************************************************************)
(* Vocabulary of the properties of findMatchByText.                        *)
(***************************************************************************)
TextDone ==
    /\ pc = "done"
    /\ op = "findMatchByText"
    /\ targetCodes /= <<>>
    /\ gridCodes /= <<>>

T == targetCodes[1]

G == gridCodes[1]

N == Len(G)

Positions == 0..(N - 1)

(* The grid code aligned with target slot t (1-based) at start position p. *)
Aligned(p, t) == G[((p + t - 1) % N) + 1]

EmbeddedAt(p) == \A t \in 1..Len(T) : Aligned(p, t) = T[t]

CostAt(p) == totalScore(T, G, p, 0)

DiffSlots(p) == {t \in 1..Len(T) : Aligned(p, t) /= T[t]}

(* p is returned exactly when nothing before it costs as little and        *)
(* nothing after it costs less.                                            *)
FirstCheapest(p) ==
    /\ \A q \in Positions : q < p => CostAt(q) > CostAt(p)
    /\ \A q \in Positions : q > p => CostAt(q) >= CostAt(p)

FourInGrid == TextDone /\ Len(T) = 4 /\ N >= 4

(* Exactly one target code differs from the window at p, in exactly one    *)
(* character, with the length unchanged.                                   *)
OneCharCorrupted(p) ==
    /\ Cardinality(DiffSlots(p)) = 1
    /\ \A t \in DiffSlots(p) :
          /\ Len(T[t]) = Len(Aligned(p, t))
          /\ charDiffs(T[t], Aligned(p, t)) = 1

TwoCodesCorrupted(p) == Cardinality(DiffSlots(p)) = 2

(* Exactly one target code lost trailing characters of the window at p.    *)
PrefixDropped(p) ==
    /\ Cardinality(DiffSlots(p)) = 1
    /\ \A t \in DiffSlots(p) :
          /\ Len(T[t]) < Len(Aligned(p, t))
          /\ startsWith(Aligned(p, t), T[t])

IsExactResult == result /= Null /\ result.score = 0 /\ result.confidence = One

(***************************************************************************)
(* C1 as stated: a 4-code target embedded at p (wraparound included) is    *)
(* reported at p with score 0 and confidence 1, for every such p.          *)
(***************************************************************************)
C1_Original ==
    FourInGrid =>
        \A p \in Positions :
            EmbeddedAt(p) => IsExactResult /\ result.position = p

(***************************************************************************)
(* C1 amended: a 4-code target embedded in the grid is reported with score *)
(* 0 and confidence 1 at the lowest start position at which it is          *)
(* embedded, which is p when p is the only embedding.                      *)
(***************************************************************************)
C1_FirstEmbedding ==
    FourInGrid =>
        \A p \in Positions :
            EmbeddedAt(p) =>
                /\ IsExactResult
                /\ EmbeddedAt(result.position)
                /\ result.position <= p
                /\ (\A q \in Positions : EmbeddedAt(q) => q = p)
                       => result.position = p

C1_Witness ==
    /\ FourInGrid
    /\ N = 5
    /\ EmbeddedAt(N - 2)
    /\ \A q \in Positions : EmbeddedAt(q) => q = N - 2
    /\ IsExactResult
    /\ result.position = N - 2

(***************************************************************************)
(* C2 as stated: after one character of one target code is replaced, the   *)
(* match is at the true position p with 0 < score <= 3.                    *)
(***************************************************************************)
C2_Original ==
    FourInGrid =>
        \A p \in Positions :
            OneCharCorrupted(p) =>
                /\ result /= Null
                /\ result.position = p
                /\ 0 < result.score
                /\ result.score <= MaxFuzzyCost * ScoreUnit

(***************************************************************************)
(* C2 amended: after one character of one target code is replaced, the     *)
(* cost at the true position p is 1, so a match is returned with score     *)
(* <= 1; it is at p, with score exactly 1, exactly when no earlier start   *)
(* position costs <= 1 and no later one costs < 1.                         *)
(***************************************************************************)
C2_OneCharSubstitution ==
    FourInGrid =>
        \A p \in Positions :
            OneCharCorrupted(p) =>
                /\ CostAt(p) = ScoreUnit
                /\ result /= Null
                /\ result.score <= ScoreUnit
                /\ (result.position = p) <=> FirstCheapest(p)
                /\ result.position = p => result.score = ScoreUnit

C2_Witness ==
    /\ FourInGrid
    /\ N = 5
    /\ \E p \in Positions :
          /\ p >= 1
          /\ OneCharCorrupted(p)
          /\ result /= Null
          /\ result.position = p
          /\ result.score = ScoreUnit

(***************************************************************************)
(* C3 as stated: with two target codes corrupted, the match is at p when   *)
(* the cost at p is <= 3, and the result is null when that cost is > 3.    *)
(***************************************************************************)
C3_Original ==
    FourInGrid =>
        \A p \in Positions :
            TwoCodesCorrupted(p) =>
                IF CostAt(p) <= MaxFuzzyCost * ScoreUnit
                THEN result /= Null /\ result.position = p
                ELSE result = Null

(***************************************************************************)
(* C3 amended: with two target codes corrupted, when the cost at p is <= 3 *)
(* a match is returned with score at most that cost, and it is at p        *)
(* exactly when no earlier start position costs as little and no later one *)
(* costs less; when the cost at p exceeds 3 the result is null exactly     *)
(* when every other start position also costs more than 3.                 *)
(***************************************************************************)
C3_TwoCodesCorrupted ==
    FourInGrid =>
        \A p \in Positions :
            TwoCodesCorrupted(p) =>
                IF CostAt(p) <= MaxFuzzyCost * ScoreUnit
                THEN /\ result /= Null
                     /\ result.score <= CostAt(p)
                     /\ (result.position = p) <=> FirstCheapest(p)
                     /\ result.position = p => result.score = CostAt(p)
                ELSE (result = Null) <=>
                         \A q \in Positions :
                             CostAt(q) > MaxFuzzyCost * ScoreUnit

C3_Witness ==
    /\ FourInGrid
    /\ \E p \in Positions :
          /\ TwoCodesCorrupted(p)
          /\ CostAt(p) = MaxFuzzyCost * ScoreUnit
          /\ result /= Null
          /\ result.position = p
          /\ result.score = MaxFuzzyCost * ScoreUnit

C3_WitnessNull ==
    /\ FourInGrid
    /\ \E p \in Positions :
          /\ TwoCodesCorrupted(p)
          /\ CostAt(p) > MaxFuzzyCost * ScoreUnit
          /\ result = Null

(***************************************************************************)
(* C4 as stated: a target code that is a strict prefix of the grid code it *)
(* is aligned with costs exactly 0.5, and a target with one dropped        *)
(* trailing character is matched at its true position with score <= 3.     *)
(***************************************************************************)
C4_Original ==
    FourInGrid =>
        \A p \in Positions :
            PrefixDropped(p) =>
                /\ CostAt(p) = ScoreUnit \div 2
                /\ result /= Null
                /\ result.position = p
                /\ result.score <= MaxFuzzyCost * ScoreUnit

(***************************************************************************)
(* C4 amended: a target code that is a strict prefix of the grid code it   *)
(* is aligned with costs exactly 0.5, so a target with one dropped         *)
(* trailing character costs 0.5 at its true position p and a match with    *)
(* score <= 0.5 is returned; it is at p exactly when no earlier start      *)
(* position costs <= 0.5 and no later one costs less.                      *)
(***************************************************************************)
C4_PrefixDrop ==
    FourInGrid =>
        \A p \in Positions :
            /\ \A t \in 1..Len(T) :
                  (/\ Len(T[t]) < Len(Aligned(p, t))
                   /\ startsWith(Aligned(p, t), T[t]))
                  => codeCost(T[t], Aligned(p, t)) * 2 = ScoreUnit
            /\ PrefixDropped(p) =>
                  /\ CostAt(p) * 2 = ScoreUnit
                  /\ result /= Null
                  /\ result.score * 2 <= ScoreUnit
                  /\ (result.position = p) <=> FirstCheapest(p)

C4_Witness ==
    /\ FourInGrid
    /\ N = 5
    /\ \E p \in Positions :
          /\ p >= 1
          /\ PrefixDropped(p)
          /\ result /= Null
          /\ result.position = p
          /\ result.score * 2 = ScoreUnit

(***************************************************************************)
(* C5: a target none of whose codes occurs anywhere in the grid gets null  *)
(* or a match with score > 0, never an exact (score 0, confidence 1) one.  *)
(***************************************************************************)
NoCodeInGrid ==
    \A t \in 1..Len(T) : \A g \in 1..N : T[t] /= G[g]

C5_NoFalseExact ==
    (TextDone /\ NoCodeInGrid) =>
        /\ result = Null \/ result.score > 0
        /\ ~IsExactResult

C5_Witness ==
    /\ FourInGrid
    /\ NoCodeInGrid
    /\ result /= Null
    /\ result.score > 0

(***************************************************************************)
(* C6: the result is null exactly when an argument is missing, the target  *)
(* has fewer than 2 codes, the grid has fewer than 4 codes, or no start    *)
(* position has total cost <= 3.                                           *)
(***************************************************************************)
C6_NullExactlyWhen ==
    (pc = "done" /\ op = "findMatchByText") =>
        ((result = Null) <=>
            \/ targetCodes = <<>>
            \/ gridCodes = <<>>
            \/ Len(T) < 2
            \/ N < 4
            \/ \A p \in Positions : CostAt(p) > MaxFuzzyCost * ScoreUnit)

C6_Witness ==
    /\ TextDone
    /\ Len(T) >= 2
    /\ N >= 4
    /\ \A p \in Positions : CostAt(p) > MaxFuzzyCost * ScoreUnit
    /\ result = Null

(***************************************************************************)
(* C7: every result of findMatchByText or findMatch on a grid of n codes   *)
(* has 0 <= position <= n - 1, row = floor(position / cols) + 1 and        *)
(* col = (position mod cols) + 1 with 1 <= col <= cols; the ground-truth   *)
(* target, embedded at index 43 of the 80-code grid, is reported as row 5, *)
(* col 4, score 0, confidence 1.                                           *)
(***************************************************************************)
GridLength == IF op = "findMatch" THEN Len(gridCells) ELSE N

IsGroundTruthCall ==
    /\ op = "findMatchByText"
    /\ targetCodes /= <<>>
    /\ gridCodes /= <<>>
    /\ G = GroundTruthGrid
    /\ T = GroundTruthTarget

C7_PositionRowCol ==
    (pc = "done" /\ op \in {"findMatchByText", "findMatch"} /\ result /= Null)
    =>  /\ result.position \in 0..(GridLength - 1)
        /\ result.row = (result.position \div result.cols) + 1
        /\ result.col = (result.position % result.cols) + 1
        /\ 1 <= result.col
        /\ result.col <= result.cols
        /\ (GridLength = 80 /\ result.position = 43)
               => result.row = 5 /\ result.col = 4
        /\ IsGroundTruthCall
               => /\ result.position = 43
                  /\ result.row = 5
                  /\ result.col = 4
                  /\ result.score = 0
                  /\ result.confidence = One

C7_Witness ==
    /\ pc = "done"
    /\ IsGroundTruthCall
    /\ result /= Null
    /\ result.position = 43
    /\ result.row = 5
    /\ result.col = 4

(***************************************************************************)
(* C8 as stated: the column count is 10 for 80 codes and, for every other  *)
(* grid length, the largest divisor of the length that is <= 10 and >= 7.  *)
(***************************************************************************)
ColumnDivisors(n) == {c \in 7..10 : n % c = 0}

C8_Original ==
    (pc = "done" /\ op = "estimateColumns") =>
        IF totalCells = 80
        THEN result.cols = 10
        ELSE /\ result.cols \in ColumnDivisors(totalCells)
             /\ \A c \in ColumnDivisors(totalCells) : c <= result.cols

(***************************************************************************)
(* C8 amended: the column count is 10 for every grid length in 75..85 or   *)
(* 55..65 (80 included); for any other length it is the largest divisor of *)
(* the length that is <= 10 and >= 7 when there is one, and 10 when there  *)
(* is none.                                                                *)
(***************************************************************************)
C8_Columns ==
    (pc = "done" /\ op = "estimateColumns") =>
        IF totalCells \in 75..85 \/ totalCells \in 55..65
        THEN result.cols = 10
        ELSE IF ColumnDivisors(totalCells) = {}
        THEN result.cols = 10
        ELSE /\ result.cols \in ColumnDivisors(totalCells)
             /\ \A c \in ColumnDivisors(totalCells) : c <= result.cols

C8_Witness ==
    /\ pc = "done"
    /\ op = "estimateColumns"
    /\ totalCells > 85
    /\ result.cols = 7

(***************************************************************************)
(* C9: the confidence of a fuzzy (non-exact) match is                      *)
(* max(0.1, min(1, (secondBest - best) / numTargets)) for the smallest and *)
(* second-smallest total costs over all start positions, counted with      *)
(* multiplicity; it lies in [0.1, 1] and is 0.1 when two positions tie for *)
(* the best cost.                                                          *)
(***************************************************************************)
MinOf(S) == CHOOSE m \in S : \A x \in S : m <= x

CostTable == [p \in Positions |-> CostAt(p)]

(* Smallest and second-smallest entry of the table c, with multiplicity.   *)
BestOf(c) == MinOf({c[p] : p \in DOMAIN c})

NumBestOf(c) == Cardinality({p \in DOMAIN c : c[p] = BestOf(c)})

SecondOf(c) ==
    IF NumBestOf(c) >= 2 THEN BestOf(c)
    ELSE MinOf({c[p] : p \in DOMAIN c} \ {BestOf(c)})

IsFuzzyResult ==
    /\ TextDone
    /\ result /= Null
    /\ \A p \in Positions : ~EmbeddedAt(p)

C9_FuzzyConfidence ==
    IsFuzzyResult =>
        LET c == CostTable
            best == BestOf(c)
            second == SecondOf(c)
        IN  /\ result.confidence =
                   RatMax(MinConfidence,
                          RatMin(One, Rat(second - best, ScoreUnit * Len(T))))
            /\ ~RatLess(result.confidence, MinConfidence)
            /\ ~RatLess(One, result.confidence)
            /\ second = best => result.confidence = MinConfidence

C9_Witness ==
    /\ IsFuzzyResult
    /\ NumBestOf(CostTable) = 1
    /\ RatLess(MinConfidence, result.confidence)
    /\ RatLess(result.confidence, One)

(***************************************************************************)
(* C10: top3 of findMatch holds the three start positions with the lowest  *)
(* summed scores in ascending score order, lowest index first among equal  *)
(* scores; top3[0] is the match; confidence is                             *)
(* min(1, (secondBest - best) / secondBest), is 0 when the two best scores *)
(* are equal, and lies in [0, 1].                                          *)
(***************************************************************************)
PixelScores == scoresOf(targetCells, gridCells, ensemble)

Before(a, b) == a.score < b.score \/ (a.score = b.score /\ a.pos < b.pos)

C10_Top3 ==
    (pc = "done" /\ op = "findMatch" /\ result /= Null) =>
        LET top3 == result.top3
            cells == 0..(Len(gridCells) - 1)
        IN  /\ \A k \in 1..3 :
                  /\ top3[k].pos \in cells
                  /\ top3[k].score = PixelScores[top3[k].pos]
            /\ Before(top3[1], top3[2])
            /\ Before(top3[2], top3[3])
            /\ \A q \in cells \ {top3[k].pos : k \in 1..3} :
                  Before(top3[3], [pos |-> q, score |-> PixelScores[q]])
            /\ result.position = top3[1].pos
            /\ result.score = top3[1].score
            /\ top3[2].score > 0 =>
                  result.confidence =
                      RatMin(One, Rat(top3[2].score - top3[1].score,
                                      top3[2].score))
            /\ top3[2].score = top3[1].score => result.confidence = Zero
            /\ ~RatLess(result.confidence, Zero)
            /\ ~RatLess(One, result.confidence)

C10_Witness ==
    /\ pc = "done"
    /\ op = "findMatch"
    /\ result /= Null
    /\ Len(gridCells) = 5
    /\ result.position > 0
    /\ result.top3[1].score < result.top3[2].score
    /\ result.top3[2].score < result.top3[3].score
    /\ RatLess(Zero, result.confidence)
    /\ RatLess(result.confidence, One)

(***************************************************************************)
(* C20.  Whenever findMatchByText returns a result, its position is the    *)
(* lowest start position among those of minimal total cost and its score   *)
(* is that cost: nothing before it costs as little, nothing after it costs *)
(* less.  When the target is embedded somewhere, the position is the first *)
(* embedding and the score is 0.                                           *)
(***************************************************************************)
C20_LowestIndex ==
    (TextDone /\ result /= Null) =>
        /\ result.position \in Positions
        /\ result.score = CostAt(result.position)
        /\ FirstCheapest(result.position)
        /\ (\E p \in Positions : EmbeddedAt(p)) =>
              /\ result.score = 0
              /\ EmbeddedAt(result.position)
              /\ \A q \in Positions : q < result.position => ~EmbeddedAt(q)

(* A fuzzy result whose cost is attained again at a later position.        *)
C20_Witness ==
    /\ TextDone
    /\ result /= Null
    /\ result.score > 0
    /\ \E q \in Positions : q > result.position /\ CostAt(q) = result.score

(***************************************************************************)
(* C11.  As stated: in findMatchByText every slot in which the target code *)
(* or the aligned grid code is "??" contributes a positive cost, and no    *)
(* result with score 0 is returned for an alignment that involves "??".    *)
(***************************************************************************)
InvolvesSentinel(p, t) == T[t] = Sentinel \/ Aligned(p, t) = Sentinel

C11_Original ==
    TextDone =>
        /\ \A p \in Positions : \A t \in 1..Len(T) :
              InvolvesSentinel(p, t) => codeCost(T[t], Aligned(p, t)) > 0
        /\ (result /= Null /\ result.score = 0) =>
              \A t \in 1..Len(T) : ~InvolvesSentinel(result.position, t)

(***************************************************************************)
(* C11, amended.  "??" is compared like any other code: a slot in which    *)
(* exactly one of the target code and the aligned grid code is "??" costs  *)
(* more than 0, a slot in which both are "??" costs 0.  A result with      *)
(* score 0 involves "??" only in slots where target and grid both hold     *)
(* it.  The call returns null or a match record in every case.             *)
(***************************************************************************)
C11_SentinelCompared ==
    TextDone =>
        /\ \A p \in Positions : \A t \in 1..Len(T) :
              InvolvesSentinel(p, t) =>
                  (codeCost(T[t], Aligned(p, t)) = 0
                      <=> (T[t] = Sentinel /\ Aligned(p, t) = Sentinel))
        /\ (result /= Null /\ result.score = 0) =>
              \A t \in 1..Len(T) :
                  InvolvesSentinel(result.position, t) =>
                      (T[t] = Sentinel /\ Aligned(result.position, t) = Sentinel)
        /\ (result = Null \/ result.position \in Positions)

(* A result with score 0 over a window that holds "??" where the target    *)
(* holds it too, next to a readable code.                                  *)
C11_Witness ==
    /\ TextDone
    /\ result /= Null
    /\ result.score = 0
    /\ \E t \in 1..Len(T) : InvolvesSentinel(result.position, t)
    /\ \E t \in 1..Len(T) : ~InvolvesSentinel(result.position, t)

(***************************************************************************)
(* State shared by the operations outside the matchers.  Their arguments   *)
(* are held in the record input; the matcher variables stay empty.         *)
(***************************************************************************)
callVars == <<op, targetCodes, gridCodes, targetCells, gridCells, ensemble,
              totalCells, input, generated, synthesized, app, camera, ocr>>

NoMatcherCall ==
    /\ targetCodes = <<>>
    /\ gridCodes = <<>>
    /\ targetCells = <<>>
    /\ gridCells = <<>>
    /\ ensemble = <<>>
    /\ totalCells = 0

NoLibrary == generated = <<>> /\ synthesized = <<>>

(***************************************************************************)
(* identifyChar (src/matcher.js).  A sample is a sequence of gray levels,  *)
(* a template a record [char, binary] whose binary is a sequence over      *)
(* {0, 255}.  Hamming distances are exact rationals.                       *)
(***************************************************************************)
MaxPixels == 2
MaxTemplates == 2

GrayLevels == {0, 100, 255}

MinPixel(cell) == CHOOSE m \in {cell[i] : i \in DOMAIN cell} :
                      \A i \in DOMAIN cell : m <= cell[i]

MaxPixel(cell) == CHOOSE m \in {cell[i] : i \in DOMAIN cell} :
                      \A i \in DOMAIN cell : m >= cell[i]

(* cell[i] > (min + max) / 2, without the division.                        *)
toBinary(cell) ==
    [i \in DOMAIN cell |->
        IF 2 * cell[i] > MinPixel(cell) + MaxPixel(cell) THEN 255 ELSE 0]

hammingDist(a, b) ==
    IF Len(a) /= Len(b) THEN One
    ELSE Rat(Cardinality({i \in 1..Len(a) : a[i] /= b[i]}), Len(a))

(* Faulty variant: a template that ties with the best replaces it.         *)
identifyStep_lastWins(best, tpl, halfBin) ==
    LET dist == hammingDist(halfBin, tpl.binary)
    IN  IF ~RatLess(best.distance, dist)
        THEN [char |-> tpl.char, distance |-> dist]
        ELSE best

(* Body of the loop over the templates (lines 276-283).                    *)
identifyStep(best, tpl, halfBin) ==
    LET dist == hammingDist(halfBin, tpl.binary)
    IN  IF RatLess(dist, best.distance)
        THEN [char |-> tpl.char, distance |-> dist]
        ELSE best

RECURSIVE identifyScan(_, _, _, _)
identifyScan(halfBin, charsetTemplates, i, best) ==
    IF i > Len(charsetTemplates) THEN best
    ELSE identifyScan(halfBin, charsetTemplates, i + 1,
                      identifyStep(best, charsetTemplates[i], halfBin))

identifyChar(halfPixels, charsetTemplates) ==
    identifyScan(toBinary(halfPixels), charsetTemplates, 1,
                 [char |-> "?", distance |-> One])

TemplateChars == <<"a", "b", "c", "d">>

Binaries == SeqsOf({0, 255}, 1, MaxPixels)

TemplateSets ==
    UNION {{[i \in 1..n |-> [char |-> TemplateChars[i], binary |-> b[i]]] :
               b \in [1..n -> Binaries]} : n \in 1..MaxTemplates}

InitIdentify ==
    /\ pc = "call"
    /\ op = "identifyChar"
    /\ NoMatcherCall
    /\ NoLibrary
    /\ NoApp
    /\ input \in [halfPixels : SeqsOf(GrayLevels, 1, MaxPixels),
                  charsetTemplates : TemplateSets]
    /\ result = Null

IdentifyChar ==
    /\ pc = "call"
    /\ op = "identifyChar"
    /\ result' = identifyChar(input.halfPixels, input.charsetTemplates)
    /\ pc' = "done"
    /\ UNCHANGED callVars

NextIdentify == IdentifyChar

SpecIdentify == InitIdentify /\ [][NextIdentify]_vars

IdentifyDone == pc = "done" /\ op = "identifyChar"

TemplateDist(i) ==
    hammingDist(toBinary(input.halfPixels), input.charsetTemplates[i].binary)

(* Template i is the first of those nearest to the sample.                 *)
FirstNearest(i) ==
    /\ \A j \in 1..Len(input.charsetTemplates) :
          ~RatLess(TemplateDist(j), TemplateDist(i))
    /\ \A j \in 1..(i - 1) : RatLess(TemplateDist(i), TemplateDist(j))

(***************************************************************************)
(* C12.  As stated: for any sample and non-empty template set identifyChar *)
(* returns the char of the first template at minimum Hamming distance,     *)
(* together with that distance.                                            *)
(***************************************************************************)
C12_Original ==
    IdentifyDone =>
        \A i \in 1..Len(input.charsetTemplates) :
            FirstNearest(i) =>
                /\ result.char = input.charsetTemplates[i].char
                /\ result.distance = TemplateDist(i)

(***************************************************************************)
(* C12, amended.  When some template is nearer than distance 1,            *)
(* identifyChar returns the char of the first template at minimum Hamming  *)
(* distance and that distance.  When every template is at distance 1 (the  *)
(* sample is the complement of each template, or differs in size), it      *)
(* returns the unreadable char "?" with distance 1.                        *)
(***************************************************************************)
C12_NearestTemplate ==
    IdentifyDone =>
        \A i \in 1..Len(input.charsetTemplates) :
            FirstNearest(i) =>
                IF RatLess(TemplateDist(i), One)
                THEN /\ result.char = input.charsetTemplates[i].char
                     /\ result.distance = TemplateDist(i)
                ELSE /\ result.char = "?"
                     /\ result.distance = One

(* Two templates tie at a minimum distance below 1; the first is returned. *)
C12_Witness ==
    /\ IdentifyDone
    /\ Len(input.charsetTemplates) >= 2
    /\ TemplateDist(1) = TemplateDist(2)
    /\ RatLess(Zero, TemplateDist(1))
    /\ RatLess(TemplateDist(1), One)
    /\ result.char = input.charsetTemplates[1].char

(***************************************************************************)
(* The Templates module (src/unnamed/part_004).  generated is <<>> while   *)
(* the source variable is null and <<lib>> once it holds an object; lib is *)
(* the set of charsets the object holds, each a record [alphabet,          *)
(* synthesis] naming the generateCharset run that made it.  synthesized    *)
(* lists the alphabets in the order generateCharset completed for them.    *)
(* input.call counts the calls made so far.                                *)
(***************************************************************************)
MaxCalls == 3

CHARSETS == <<"numeric", "alphabet", "alphanumeric", "greek", "braille",
              "runes">>

CharsetNames == {CHARSETS[i] : i \in 1..Len(CHARSETS)}

(* The charsets in generated after the loop of generate has completed k    *)
(* rounds, the first call of generateCharset being number base + 1.        *)
builtCharsets(base, k) ==
    {[alphabet |-> CHARSETS[i], synthesis |-> base + i] : i \in 1..k}

builtNames(k) == [i \in 1..k |-> CHARSETS[i]]

(* generated[name] || null                                                 *)
charsetOf(lib, name) ==
    IF \E c \in lib : c.alphabet = name
    THEN CHOOSE c \in lib : c.alphabet = name
    ELSE Null

(* if (generated) return generated;   if (!generated) generate();          *)
isCached(gen) == gen /= <<>>

(* generate() when nothing is cached: generated = {} is assigned first,    *)
(* then the charsets are added one by one.  renderChar dereferences the    *)
(* 2D context it asked for (lines 389-391); where the browser hands out    *)
(* no context the call throws there, after k charsets were added.  k =     *)
(* Len(CHARSETS) is the run that completes.                                *)
generateRun(k) ==
    /\ generated' = <<builtCharsets(Len(synthesized), k)>>
    /\ synthesized' = synthesized \o builtNames(k)

TemplatesCall(name, opName) ==
    /\ input.call < MaxCalls
    /\ op' = opName
    /\ input' = [name |-> name, call |-> input.call + 1]
    /\ pc' = "done"
    /\ UNCHANGED <<targetCodes, gridCodes, targetCells, gridCells, ensemble,
                   totalCells, app, camera, ocr>>

Generate ==
    /\ TemplatesCall("none", "generate")
    /\ IF isCached(generated)
       THEN /\ UNCHANGED <<generated, synthesized>>
            /\ result' = [library |-> generated[1]]
       ELSE /\ generateRun(Len(CHARSETS))
            /\ result' = [library |-> builtCharsets(Len(synthesized),
                                                     Len(CHARSETS))]

GenerateThrows ==
    /\ TemplatesCall("none", "generate")
    /\ ~isCached(generated)
    /\ \E k \in 0..(Len(CHARSETS) - 1) : generateRun(k)
    /\ result' = [throws |-> "TypeError"]

GetCharset ==
    \E name \in CharsetNames \cup {"emoji"} :
        /\ TemplatesCall(name, "getCharset")
        /\ IF isCached(generated)
           THEN /\ UNCHANGED <<generated, synthesized>>
                /\ result' = [charset |-> charsetOf(generated[1], name)]
           ELSE /\ generateRun(Len(CHARSETS))
                /\ result' = [charset |->
                       charsetOf(builtCharsets(Len(synthesized),
                                               Len(CHARSETS)), name)]

GetCharsetThrows ==
    \E name \in CharsetNames \cup {"emoji"} :
        /\ TemplatesCall(name, "getCharset")
        /\ ~isCached(generated)
        /\ \E k \in 0..(Len(CHARSETS) - 1) : generateRun(k)
        /\ result' = [throws |-> "TypeError"]

GetAllCharsets ==
    /\ TemplatesCall("none", "getAllCharsets")
    /\ IF isCached(generated)
       THEN /\ UNCHANGED <<generated, synthesized>>
            /\ result' = [library |-> generated[1]]
       ELSE /\ generateRun(Len(CHARSETS))
            /\ result' = [library |-> builtCharsets(Len(synthesized),
                                                     Len(CHARSETS))]

GetAllCharsetsThrows ==
    /\ TemplatesCall("none", "getAllCharsets")
    /\ ~isCached(generated)
    /\ \E k \in 0..(Len(CHARSETS) - 1) : generateRun(k)
    /\ result' = [throws |-> "TypeError"]

InitTemplates ==
    /\ pc = "call"
    /\ op = "none"
    /\ NoMatcherCall
    /\ NoLibrary
    /\ NoApp
    /\ input = [name |-> "none", call |-> 0]
    /\ result = Null

NextTemplates ==
    \/ Generate
    \/ GenerateThrows
    \/ GetCharset
    \/ GetCharsetThrows
    \/ GetAllCharsets
    \/ GetAllCharsetsThrows

SpecTemplates == InitTemplates /\ [][NextTemplates]_vars

(***************************************************************************)
(* C14.  Across any sequence of generate, getCharset and getAllCharsets    *)
(* calls no alphabet is synthesized more than once, and every call after   *)
(* the first returns the library with all six alphabets: generate and      *)
(* getAllCharsets return a library holding every alphabet, getCharset of   *)
(* one of the six alphabets returns its charset.                           *)
(***************************************************************************)
C14_Original ==
    /\ \A i, j \in 1..Len(synthesized) :
          synthesized[i] = synthesized[j] => i = j
    /\ (pc = "done" /\ input.call >= 2) =>
          /\ op \in {"generate", "getAllCharsets"} =>
                /\ "library" \in DOMAIN result
                /\ {c.alphabet : c \in result.library} = CharsetNames
          /\ (op = "getCharset" /\ input.name \in CharsetNames) =>
                /\ "charset" \in DOMAIN result
                /\ result.charset /= Null

(***************************************************************************)
(* Detector.detect (src/unnamed/part_003): the construction of the cell    *)
(* boxes from the measurements of a frame.  input holds what the           *)
(* projections measured in the pass that decides the call (the binary      *)
(* pass, or the grayscale pass when the binary pass found nothing; both    *)
(* build the boxes the same way, lines 320-403 and 548-648):               *)
(*   gridTop, rowSpacing   first row band's start and the band pitch; the  *)
(*                         8 bands of bestGroup are BandHeight tall        *)
(*   gridLeft, gridRight   longest region above the extent threshold,      *)
(*                         -1 when there is none                           *)
(*   firstRaw, lastRaw     first and last column of that region above the  *)
(*                         trim threshold, -1 when there is none           *)
(*   hasTargetBand         a row band lies above the grid (startIdx >= 1)  *)
(*   targetRow             that band                                       *)
(*   tLeft, tRight         first and last column of the target band above  *)
(*                         its threshold, -1 when there is none            *)
(* Fractions are exact rationals; Math.round is Round.  Within the bounds  *)
(* no rounded quantity is within floating-point error of a half.           *)
(***************************************************************************)
MaxWidth == 14
MaxTargetColumn == 4

BandHeight == 3

numCols == 10

(* Math.round(n / d) for d > 0: the nearest integer, halves upwards.       *)
Round(n, d) == (2 * n + d) \div (2 * d)

Max2(a, b) == IF a > b THEN a ELSE b

rowBand(in, r) ==
    LET start == in.gridTop + r * in.rowSpacing
    IN  [start |-> start, end |-> start + BandHeight,
         center |-> Rat(2 * start + BandHeight, 2)]

trimLeft(in) == IF in.firstRaw >= 0 THEN in.firstRaw ELSE in.gridLeft

trimRight(in) == IF in.lastRaw >= 0 THEN in.lastRaw + 1 ELSE in.gridRight

(* Row r, column c (both 0-based), lines 341-357.  With gridWidth = gw,    *)
(* colSpacing = gw / 10, cellW = 0.92 gw / 10, cellH = 0.85 rowSpacing:    *)
(* cx - cellW / 2 = trimLeft + gw (100 c + 4) / 1000 and                   *)
(* cy - cellH / 2 = (100 (2 start + BandHeight) - 85 rowSpacing) / 200.    *)
gridCell(in, r, c) ==
    LET gw == trimRight(in) - trimLeft(in)
        row == rowBand(in, r)
    IN  [x  |-> Max2(0, trimLeft(in) + Round(gw * (100 * c + 4), 1000)),
         y  |-> Max2(0, Round(100 * (2 * row.start + BandHeight)
                                - 85 * in.rowSpacing, 200)),
         w  |-> Round(92 * gw, 1000),
         h  |-> Round(85 * in.rowSpacing, 100),
         cx |-> Rat(20 * trimLeft(in) + (2 * c + 1) * gw, 20),
         cy |-> row.center,
         area |-> Round(92 * gw * 85 * in.rowSpacing, 100000)]

(* Faulty variant: the boxes are pushed column by column.                  *)
gridCellsOf_columnMajor(in) ==
    [k \in 1..(8 * numCols) |-> gridCell(in, (k - 1) % 8, (k - 1) \div 8)]

(* for (const row of bestGroup.rows) for (c = 0; c < numCols; c++) push    *)
gridCellsOf(in) ==
    [k \in 1..(8 * numCols) |->
        gridCell(in, (k - 1) \div numCols, (k - 1) % numCols)]

(* Target cell i (0-based), lines 380-394: targetCellW = targetSpan / 4.   *)
targetCell(in, i) ==
    LET targetSpan == in.tRight - in.tLeft
    IN  [x  |-> in.tLeft + Round(i * targetSpan, 4),
         y  |-> in.targetRow.start,
         w  |-> Round(targetSpan, 4),
         h  |-> in.targetRow.end - in.targetRow.start,
         cx |-> Rat(8 * in.tLeft + (2 * i + 1) * targetSpan, 8),
         cy |-> Rat(in.targetRow.start + in.targetRow.end, 2),
         area |-> Round(targetSpan * (in.targetRow.end - in.targetRow.start),
                        4)]

targetCellsOf(in) ==
    IF in.hasTargetBand /\ in.tLeft >= 0 /\ in.tRight > in.tLeft
    THEN [i \in 1..4 |-> targetCell(in, i - 1)]
    ELSE <<>>

detect(in) ==
    IF in.gridLeft < 0 \/ in.gridRight - in.gridLeft < in.rowSpacing * 3
    THEN Null
    ELSE [gridCells |-> gridCellsOf(in),
          targetCells |-> IF Len(targetCellsOf(in)) >= 4
                          THEN <<targetCellsOf(in)>> ELSE <<>>,
          rows |-> 8,
          cols |-> numCols]

(* Measurements a frame of MaxWidth columns can give: bands are at least 3 *)
(* rows tall and do not touch, so the pitch is at least BandHeight + 1.    *)
Extents ==
    {e \in [gridLeft : -1..MaxWidth, gridRight : -1..MaxWidth,
            firstRaw : -1..(MaxWidth - 1), lastRaw : -1..(MaxWidth - 1)] :
        \/ e.gridLeft = -1 /\ e.gridRight = -1
              /\ e.firstRaw = -1 /\ e.lastRaw = -1
        \/ /\ 0 <= e.gridLeft
           /\ e.gridRight - e.gridLeft >= 3 * (BandHeight + 1) - 1
           /\ \/ e.firstRaw = -1 /\ e.lastRaw = -1
              \/ /\ e.gridLeft <= e.firstRaw
                 /\ e.firstRaw <= e.lastRaw
                 /\ e.lastRaw < e.gridRight}

TargetExtents ==
    {t \in [hasTargetBand : BOOLEAN, tLeft : -1..MaxTargetColumn,
            tRight : -1..MaxTargetColumn] :
        ~t.hasTargetBand => (t.tLeft = -1 /\ t.tRight = -1)}

DetectInputs ==
    {[gridTop |-> 5, rowSpacing |-> sp,
      gridLeft |-> e.gridLeft, gridRight |-> e.gridRight,
      firstRaw |-> e.firstRaw, lastRaw |-> e.lastRaw,
      hasTargetBand |-> t.hasTargetBand,
      targetRow |-> [start |-> 1, end |-> 1 + BandHeight],
      tLeft |-> t.tLeft, tRight |-> t.tRight] :
        sp \in (BandHeight + 1)..(MaxWidth \div 3), e \in Extents,
        t \in TargetExtents}

InitDetect ==
    /\ pc = "call"
    /\ op = "detect"
    /\ NoMatcherCall
    /\ NoLibrary
    /\ NoApp
    /\ input \in DetectInputs
    /\ result = Null

Detect ==
    /\ pc = "call"
    /\ op = "detect"
    /\ result' = detect(input)
    /\ pc' = "done"
    /\ UNCHANGED callVars

NextDetect == Detect

SpecDetect == InitDetect /\ [][NextDetect]_vars

DetectDone == pc = "done" /\ op = "detect"

(***************************************************************************)
(* C15.  Whenever detect returns a result, gridCells holds exactly 80      *)
(* boxes in row-major order: the box at index r * 10 + c is centred on row *)
(* band r and its centre lies in column slot c of the trimmed grid extent; *)
(* rows = 8 and cols = 10; targetCells is null or exactly 4 boxes ordered  *)
(* left to right; and whether or not the target is missing the 80 grid     *)
(* boxes are there.                                                        *)
(***************************************************************************)
C15_GridShape ==
    (DetectDone /\ result /= Null) =>
        LET gw == trimRight(input) - trimLeft(input)
        IN
        /\ Len(result.gridCells) = 80
        /\ result.rows = 8
        /\ result.cols = 10
        /\ \A r \in 0..7 : \A c \in 0..9 :
              LET box == result.gridCells[r * 10 + c + 1]
              IN  /\ box.cy = rowBand(input, r).center
                  /\ RatLess(Rat(10 * trimLeft(input) + c * gw, 10), box.cx)
                  /\ RatLess(box.cx,
                             Rat(10 * trimLeft(input) + (c + 1) * gw, 10))
        /\ \/ result.targetCells = <<>>
           \/ /\ Len(result.targetCells[1]) = 4
              /\ \A i \in 1..3 :
                    /\ RatLess(result.targetCells[1][i].cx,
                               result.targetCells[1][i + 1].cx)
                    /\ result.targetCells[1][i].x
                          <= result.targetCells[1][i + 1].x

(* A result without a target, whose grid extent was trimmed.               *)
C15_Witness ==
    /\ DetectDone
    /\ result /= Null
    /\ result.targetCells = <<>>
    /\ input.hasTargetBand
    /\ input.firstRaw > input.gridLeft
    /\ Len(result.gridCells) = 80

(***************************************************************************)
(* C16.  Every grid cell box and every target cell box returned by detect  *)
(* has width w > 0 and height h > 0.                                       *)
(***************************************************************************)
C16_Original ==
    (DetectDone /\ result /= Null) =>
        /\ \A k \in 1..Len(result.gridCells) :
              result.gridCells[k].w > 0 /\ result.gridCells[k].h > 0
        /\ result.targetCells /= <<>> =>
              \A i \in 1..4 :
                  /\ result.targetCells[1][i].w > 0
                  /\ result.targetCells[1][i].h > 0

(***************************************************************************)
(* Processor.extractCell (src/unnamed/part_004) and OCR.cropRegion         *)
(* (src/ocr.js): the region of the frame that is read for a cell box.      *)
(* input.frame is the frame's size, input.blob the box in whole pixels,    *)
(* input.half the half pixel added to each of the box's numbers before     *)
(* cropRegion rounds them (0 or 1 halves).  A result [region] is the       *)
(* rectangle whose pixels are read; a result [throws] is the exception     *)
(* the call ends with.                                                     *)
(***************************************************************************)
MaxFrame == 5

(* padding is not passed by extractAllCells: pad = padding || 2.           *)
pad == 2

(* Lines 24-31 and 76-84: new Uint8Array(sw * sh) throws a RangeError for  *)
(* a negative length; with sw or sh zero the tight crop is cropW = sw,     *)
(* cropH = sh and createImageData(cropW, cropH) throws an IndexSizeError.  *)
extractCell(frame, blob) ==
    LET sx == Max2(0, blob.x - pad)
        sy == Max2(0, blob.y - pad)
        sw == Min2(frame.width - sx, blob.w + pad * 2)
        sh == Min2(frame.height - sy, blob.h + pad * 2)
    IN  IF sw * sh < 0 THEN [throws |-> "RangeError"]
        ELSE IF sw = 0 \/ sh = 0 THEN [throws |-> "IndexSizeError"]
        ELSE [region |-> [x |-> sx, y |-> sy, w |-> sw, h |-> sh]]

(* if (w < 3 || h < 3) return null;                                        *)
tooSmall(w, h) == w < 3 \/ h < 3

(* Lines 44-50; the arguments are given in half pixels.                    *)
cropRegion(frame, x2, y2, w2, h2) ==
    LET x == Max2(0, Round(x2, 2))
        y == Max2(0, Round(y2, 2))
        w == Min2(frame.width - x, Round(w2, 2))
        h == Min2(frame.height - y, Round(h2, 2))
    IN  IF tooSmall(w, h) THEN Null
        ELSE [region |-> [x |-> x, y |-> y, w |-> w, h |-> h]]

Frames == [width : (MaxFrame - 1)..MaxFrame, height : (MaxFrame - 1)..MaxFrame]

Blobs == [x : -3..(MaxFrame + 3), y : -3..(MaxFrame + 3),
          w : 0..MaxFrame, h : 0..MaxFrame]

InitCrop ==
    /\ pc = "call"
    /\ \/ op = "extractCell" /\ input \in [frame : Frames, blob : Blobs,
                                            half : {0}]
       \/ op = "cropRegion" /\ input \in [frame : Frames, blob : Blobs,
                                           half : {0, 1}]
    /\ NoMatcherCall
    /\ NoLibrary
    /\ NoApp
    /\ result = Null

ExtractCell ==
    /\ pc = "call"
    /\ op = "extractCell"
    /\ result' = extractCell(input.frame, input.blob)
    /\ pc' = "done"
    /\ UNCHANGED callVars

CropRegion ==
    /\ pc = "call"
    /\ op = "cropRegion"
    /\ result' = cropRegion(input.frame,
                            2 * input.blob.x + input.half,
                            2 * input.blob.y + input.half,
                            2 * input.blob.w + input.half,
                            2 * input.blob.h + input.half)
    /\ pc' = "done"
    /\ UNCHANGED callVars

NextCrop == ExtractCell \/ CropRegion

SpecCrop == InitCrop /\ [][NextCrop]_vars

(* Every pixel of the rectangle lies in the frame.                         *)
InFrame(region, frame) ==
    /\ region.x >= 0
    /\ region.y >= 0
    /\ region.w >= 0
    /\ region.h >= 0
    /\ region.x + region.w <= frame.width
    /\ region.y + region.h <= frame.height

(***************************************************************************)
(* C17.  For any cell box, also one partly or wholly outside the frame or  *)
(* of zero area, extractCell and cropRegion end without an exception, the  *)
(* rectangle they read lies inside the frame, and cropRegion returns null  *)
(* exactly when the clamped rectangle is smaller than 3 x 3.               *)
(***************************************************************************)
C17_Original ==
    /\ (pc = "done" /\ op = "extractCell") =>
          /\ "throws" \notin DOMAIN result
          /\ InFrame(result.region, input.frame)
    /\ (pc = "done" /\ op = "cropRegion") =>
          /\ "throws" \notin DOMAIN result
          /\ result /= Null => /\ InFrame(result.region, input.frame)
                               /\ result.region.w >= 3
                               /\ result.region.h >= 3
          /\ result = Null =>
                LET x == Max2(0, (2 * input.blob.x + input.half + 1) \div 2)
                    y == Max2(0, (2 * input.blob.y + input.half + 1) \div 2)
                IN  \/ input.frame.width - x < 3
                    \/ input.frame.height - y < 3
                    \/ (2 * input.blob.w + input.half + 1) \div 2 < 3
                    \/ (2 * input.blob.h + input.half + 1) \div 2 < 3

(***************************************************************************)
(* The OCR module's text functions.  The repository holds two builds of    *)
(* the module, src/ocr.js and src/unnamed/part_000; input.build names the  *)
(* one that is loaded.  A text is a sequence of characters, a character a  *)
(* string: itself for ASCII, its code point otherwise.                     *)
(***************************************************************************)
MaxRow == 3

Builds == {"src/ocr.js", "src/unnamed/part_000"}

CODE_LEN == 2

AlphabetChars ==
    [numeric      |-> {"3", "7"},
     alphabet     |-> {"K", "X"},
     alphanumeric |-> {"K", "7"},
     greek        |-> {"U+0392", "U+03A9"},
     braille      |-> {"U+2841", "U+28FF"},
     runes        |-> {"U+16A0", "U+16E4"}]

charClass(ch) ==
    IF ch \in {"3", "7"} THEN "digit"
    ELSE IF ch \in {"K", "X", "B", "P", "k"} THEN "latin"
    ELSE IF ch \in {"U+0392", "U+03A1", "U+03A7", "U+03A9", "U+03C7",
                    "U+03C9"} THEN "greek"
    ELSE IF ch \in {"U+2841", "U+28FF"} THEN "braille"
    ELSE IF ch \in {"U+16A0", "U+16E4"} THEN "rune"
    ELSE IF ch = " " THEN "space"
    ELSE "other"

(* The characters CODE_CHARS_RE leaves in place (ocr.js:24, part_000:27).  *)
isCodeChar(build, ch) ==
    \/ charClass(ch) \in {"digit", "latin", "greek"}
    \/ build = "src/unnamed/part_000" /\ charClass(ch) \in {"braille", "rune"}

(* text.replace(CODE_CHARS_RE, '')                                         *)
cleanedOf(build, text) == SelectSeq(text, LAMBDA ch : isCodeChar(build, ch))

(* The first count chunks of CODE_LEN characters.                          *)
chunksOf(str, count) ==
    [i \in 1..count |->
        SubSeq(str, CODE_LEN * (i - 1) + 1,
               IF CODE_LEN * i < Len(str) THEN CODE_LEN * i ELSE Len(str))]

(* text.replace(CODE_CHARS_SPACE_RE, ' ').trim().split(/\s+/).filter(...):  *)
(* the maximal runs of code characters; cur is the run being read.         *)
RECURSIVE splitParts(_, _, _, _)
splitParts(build, text, i, cur) ==
    IF i > Len(text) THEN (IF cur = <<>> THEN <<>> ELSE <<cur>>)
    ELSE IF isCodeChar(build, text[i])
    THEN splitParts(build, text, i + 1, Append(cur, text[i]))
    ELSE (IF cur = <<>> THEN <<>> ELSE <<cur>>)
         \o splitParts(build, text, i + 1, <<>>)

(* The merge loop (ocr.js:246-254); i is 0-based as in the source.         *)
RECURSIVE mergeSingles(_, _, _, _)
mergeSingles(parts, i, merged, expectedCount) ==
    IF ~(i < Len(parts) /\ Len(merged) < expectedCount) THEN merged
    ELSE IF Len(parts[i + 1]) = 1 /\ i + 1 < Len(parts)
            /\ Len(parts[i + 2]) = 1
    THEN mergeSingles(parts, i + 2,
                      Append(merged, parts[i + 1] \o parts[i + 2]),
                      expectedCount)
    ELSE mergeSingles(parts, i + 1, Append(merged, parts[i + 1]),
                      expectedCount)

(* The expansion loop (ocr.js:259-264).                                    *)
RECURSIVE expandAll(_, _)
expandAll(list, i) ==
    IF i > Len(list) THEN <<>>
    ELSE (IF Len(list[i]) > CODE_LEN /\ Len(list[i]) % CODE_LEN = 0
          THEN chunksOf(list[i], Len(list[i]) \div CODE_LEN)
          ELSE <<list[i]>>)
         \o expandAll(list, i + 1)

parseRowCodes(build, text, expectedCount) ==
    LET cleaned == cleanedOf(build, text)
        parts == splitParts(build, text, 1, <<>>)
        merged == mergeSingles(parts, 0, <<>>, expectedCount)
        expanded == expandAll(IF Len(parts) > 0 THEN parts ELSE <<cleaned>>, 1)
    IN  IF Len(cleaned) = expectedCount * CODE_LEN
        THEN chunksOf(cleaned, Len(cleaned) \div CODE_LEN)
        ELSE IF Len(cleaned) >= expectedCount * CODE_LEN
                /\ Len(cleaned) <= expectedCount * CODE_LEN + 2
        THEN chunksOf(cleaned, expectedCount)
        ELSE IF Len(parts) = expectedCount THEN parts
        ELSE IF Len(parts) > expectedCount /\ Len(merged) = expectedCount
        THEN merged
        ELSE IF Len(expanded) = expectedCount THEN expanded
        ELSE IF Len(parts) > 0 THEN parts
        ELSE IF Len(cleaned) > 0 THEN <<cleaned>>
        ELSE <<>>

(* codes.join(' ') and codes.join('')                                      *)
RECURSIVE joinCodes(_, _, _)
joinCodes(codes, sep, i) ==
    IF i > Len(codes) THEN <<>>
    ELSE (IF i > 1 THEN sep ELSE <<>>) \o codes[i]
         \o joinCodes(codes, sep, i + 1)

RowsOf(alphabet) ==
    SeqsOf([1..CODE_LEN -> AlphabetChars[alphabet]], 1, MaxRow)

InitParse ==
    /\ pc = "call"
    /\ op = "parseRowCodes"
    /\ NoMatcherCall
    /\ NoLibrary
    /\ NoApp
    /\ \E build \in Builds, alphabet \in DOMAIN AlphabetChars,
            sep \in {<<" ">>, <<>>} :
          \E row \in RowsOf(alphabet) :
              input = [build |-> build, alphabet |-> alphabet, row |-> row,
                       text |-> joinCodes(row, sep, 1),
                       expectedCount |-> Len(row)]
    /\ result = Null

ParseRowCodes ==
    /\ pc = "call"
    /\ op = "parseRowCodes"
    /\ result' = [codes |-> parseRowCodes(input.build, input.text,
                                          input.expectedCount)]
    /\ pc' = "done"
    /\ UNCHANGED callVars

NextParse == ParseRowCodes

SpecParse == InitParse /\ [][NextParse]_vars

(***************************************************************************)
(* C18.  For a row of two-character codes of one of the six alphabets,     *)
(* parseRowCodes of the codes joined by single spaces, and of the codes    *)
(* written without spaces, with expectedCount the number of codes, returns *)
(* exactly the codes of the row, in order.                                 *)
(***************************************************************************)
C18_Original ==
    (pc = "done" /\ op = "parseRowCodes") => result.codes = input.row

(***************************************************************************)
(* OCR.normalizeCodes.  The characters are Latin B, K, P, X, k, the digit  *)
(* 7, and Greek capital Beta U+0392, Rho U+03A1, Chi U+03A7, Omega U+03A9, *)
(* small chi U+03C7 and small omega U+03C9.                                *)
(***************************************************************************)
MaxNormLen == 4

OcrExports(build) ==
    IF build = "src/ocr.js"
    THEN {"init", "switchLang", "ocrTarget", "ocrGrid", "terminate",
          "detectCharsetFromFrame", "getDetectedCharset",
          "setDetectedCharset", "cropRegion", "binarize", "parseRowCodes"}
    ELSE {"init", "ocrTarget", "ocrGridBlock", "ocrGrid", "ocrCellRow",
          "terminate", "cropRegion", "binarize", "parseRowCodes",
          "parseTargetCodes", "normalizeText", "normalizeCodes",
          "guessWhitelist"}

(* The entries of the two tables for the characters above.                 *)
GREEK_TO_LATIN == [c \in {"U+0392", "U+03A1", "U+03A7"} |->
    IF c = "U+0392" THEN "B" ELSE IF c = "U+03A1" THEN "P" ELSE "X"]

GREEK_LOWER_TO_LATIN == [c \in {"U+03C7"} |-> "X"]

(* String.prototype.toUpperCase on one character.                          *)
toUpperCase(ch) ==
    IF ch = "k" THEN <<"K">>
    ELSE IF ch = "U+03C7" THEN <<"U+03A7">>
    ELSE IF ch = "U+03C9" THEN <<"U+03A9">>
    ELSE <<ch>>

(* Body of the loop of normalizeText (part_000:32-36).                     *)
normalizeChar(ch) ==
    IF ch \in DOMAIN GREEK_TO_LATIN THEN <<GREEK_TO_LATIN[ch]>>
    ELSE IF ch \in DOMAIN GREEK_LOWER_TO_LATIN
    THEN <<GREEK_LOWER_TO_LATIN[ch]>>
    ELSE toUpperCase(ch)

RECURSIVE normalizeText(_)
normalizeText(text) ==
    IF text = <<>> THEN <<>>
    ELSE normalizeChar(Head(text)) \o normalizeText(Tail(text))

normalizeCodes(codes) == [i \in DOMAIN codes |-> normalizeText(codes[i])]

(* The call OCR.normalizeCodes(codes) on the loaded build.                 *)
callNormalizeCodes(build, codes) ==
    IF "normalizeCodes" \in OcrExports(build)
    THEN [codes |-> normalizeCodes(codes)]
    ELSE [throws |-> "TypeError"]

NormCodes == {<<"U+0392", "U+03A7">>, <<"U+03A1", "U+03A9">>,
              <<"U+03C7", "U+03C9">>, <<"k", "7">>}

(* A Greek capital written as the Latin letter it looks like.              *)
Lookalike(ch) ==
    IF ch = "U+0392" THEN "B"
    ELSE IF ch = "U+03A7" THEN "X"
    ELSE IF ch = "U+03A1" THEN "P"
    ELSE ch

(* codes with the codes at the positions in mask read as lookalikes.       *)
Mixed(codes, mask) ==
    [i \in DOMAIN codes |->
        IF i \in mask THEN [c \in DOMAIN codes[i] |-> Lookalike(codes[i][c])]
        ELSE codes[i]]

InitNormalize ==
    /\ pc = "call"
    /\ op = "normalizeCodes"
    /\ NoMatcherCall
    /\ NoLibrary
    /\ NoApp
    /\ \E build \in Builds, codes \in SeqsOf(NormCodes, 4, MaxNormLen) :
          \E mask \in SUBSET (1..2) :
              input = [build |-> build, codes |-> codes,
                       mixed |-> Mixed(codes, mask)]
    /\ result = Null

NormalizeCodes ==
    /\ pc = "call"
    /\ op = "normalizeCodes"
    /\ result' = callNormalizeCodes(input.build, input.codes)
    /\ pc' = "done"
    /\ UNCHANGED callVars

NextNormalize == NormalizeCodes

SpecNormalize == InitNormalize /\ [][NextNormalize]_vars

(* The position findMatchByText finds for the first two codes of a list    *)
(* in that list, -1 for null.                                              *)
PositionIn(target, grid) ==
    LET m == findMatchByText(<<SubSeq(target, 1, 2)>>, <<grid>>)
    IN  IF m = Null THEN -1 ELSE m.position

(***************************************************************************)
(* C19.  OCR.normalizeCodes returns, for every code, a code of the same    *)
(* length; a list in which Greek letters are written as their Latin        *)
(* lookalikes normalizes to the same list as the unmixed one, so that      *)
(* findMatchByText on the normalized target and grid finds the position it *)
(* finds on the unmixed data; and normalizing twice equals normalizing     *)
(* once.                                                                   *)
(***************************************************************************)
C19_Original ==
    (pc = "done" /\ op = "normalizeCodes") =>
        /\ "throws" \notin DOMAIN result
        /\ Len(result.codes) = Len(input.codes)
        /\ \A i \in 1..Len(input.codes) :
              Len(result.codes[i]) = Len(input.codes[i])
        /\ callNormalizeCodes(input.build, input.mixed) = result
        /\ PositionIn(normalizeCodes(input.mixed), result.codes)
              = PositionIn(input.codes, input.codes)
        /\ callNormalizeCodes(input.build, result.codes) = result

(***************************************************************************)
(* Detector.mergeBands, in its two versions: src/unnamed/part_003 finds    *)
(* the separation threshold at the largest ratio jump of the sorted gaps,  *)
(* src/test/scan-test.js takes 40% of the median gap (at least 2) and      *)
(* carries each band's peak density.  A band is a record start, end        *)
(* (exclusive), center2 = 2 * center, and peak in percent in the test      *)
(* version.  The bands come from findPeaks filtered to a height of at      *)
(* least 3: ordered, disjoint, every gap at least 1.                       *)
(***************************************************************************)
MaxBands == 9

GridRows == 8

GapSizes == {1, 3, 8}

DetectorBuilds == {"src/test/scan-test.js", "src/unnamed/part_003"}

hasPeak(build) == build = "src/test/scan-test.js"

(* Array.prototype.sort((a, b) => a - b) on numbers.                       *)
insertAsc(s, x) ==
    LET k == Cardinality({i \in 1..Len(s) : s[i] <= x})
    IN  SubSeq(s, 1, k) \o <<x>> \o SubSeq(s, k + 1, Len(s))

RECURSIVE sortAsc(_)
sortAsc(s) == IF s = <<>> THEN <<>> ELSE insertAsc(sortAsc(Tail(s)), Head(s))

gapsOf(bands) ==
    [i \in 1..(Len(bands) - 1) |-> bands[i + 1].start - bands[i].end]

(* scan-test.js: Math.max(2, medianGap * 0.4).                             *)
medianThreshold(bands) ==
    LET sorted    == sortAsc(gapsOf(bands))
        medianGap == sorted[(Len(sorted) \div 2) + 1]
    IN  RatMax(Rat(2, 1), Rat(2 * medianGap, 5))

(* part_003: the loop over the sorted gaps, from index i (1-based here).   *)
RECURSIVE ratioScan(_, _, _, _)
ratioScan(sorted, i, maxRatio, threshold) ==
    IF i > Len(sorted) THEN [maxRatio |-> maxRatio, threshold |-> threshold]
    ELSE IF sorted[i - 1] > 0
              /\ RatLess(maxRatio, Rat(sorted[i], sorted[i - 1]))
         THEN ratioScan(sorted, i + 1, Rat(sorted[i], sorted[i - 1]),
                        Rat(sorted[i - 1] + sorted[i], 2))
         ELSE ratioScan(sorted, i + 1, maxRatio, threshold)

ratioJump(bands) ==
    LET sorted == sortAsc(gapsOf(bands))
    IN  ratioScan(sorted, 2, Zero, Rat(sorted[Len(sorted)], 1))

separationThreshold(build, bands) ==
    IF hasPeak(build) THEN medianThreshold(bands)
    ELSE ratioJump(bands).threshold

(* part_003 only: if (maxRatio < 2) return bands.                          *)
noJump(build, bands) ==
    /\ ~hasPeak(build)
    /\ RatLess(ratioJump(bands).maxRatio, Rat(2, 1))

newBand(build, b) ==
    IF hasPeak(build)
    THEN [start |-> b.start, end |-> b.end, peak |-> b.peak]
    ELSE [start |-> b.start, end |-> b.end]

extendBand(build, m, b) ==
    IF hasPeak(build)
    THEN [m EXCEPT !.end = b.end, !.peak = Max2(m.peak, b.peak)]
    ELSE [m EXCEPT !.end = b.end]

RECURSIVE mergeScan(_, _, _, _, _)
mergeScan(build, bands, i, merged, threshold) ==
    IF i > Len(bands) THEN merged
    ELSE LET last == merged[Len(merged)]
             gap  == bands[i].start - last.end
         IN  IF ~RatLess(threshold, Rat(gap, 1))
             THEN mergeScan(build, bands, i + 1,
                            [merged EXCEPT ![Len(merged)] =
                                extendBand(build, last, bands[i])],
                            threshold)
             ELSE mergeScan(build, bands, i + 1,
                            Append(merged, newBand(build, bands[i])),
                            threshold)

(* merged.forEach(b => b.center = (b.start + b.end) / 2)                   *)
withCenter(merged) ==
    [k \in 1..Len(merged) |->
        [center2 |-> merged[k].start + merged[k].end] @@ merged[k]]

acceptMerged_always(bands, merged) == merged

acceptMerged(bands, merged) ==
    IF Len(merged) < GridRows THEN bands ELSE merged

mergeBands(build, bands) ==
    IF Len(bands) <= GridRows THEN bands
    ELSE IF noJump(build, bands) THEN bands
    ELSE acceptMerged(bands,
            withCenter(mergeScan(build, bands, 2,
                                 <<newBand(build, bands[1])>>,
                                 separationThreshold(build, bands))))

(* The bands findPeaks reports for rows BandHeight tall separated by the   *)
(* given gaps; the peak density varies from band to band.                  *)
RECURSIVE bandsFrom(_, _, _, _)
bandsFrom(build, gaps, i, start) ==
    LET b == [start |-> start, end |-> start + BandHeight,
              center2 |-> 2 * start + BandHeight]
        band == IF hasPeak(build) THEN [peak |-> 4 + (i % 3)] @@ b ELSE b
    IN  IF i > Len(gaps) THEN <<band>>
        ELSE <<band>> \o bandsFrom(build, gaps, i + 1,
                                   start + BandHeight + gaps[i])

InitMerge ==
    /\ pc = "call"
    /\ op = "mergeBands"
    /\ NoMatcherCall
    /\ NoLibrary
    /\ NoApp
    /\ \E build \in DetectorBuilds :
          \E gaps \in SeqsOf(GapSizes, GridRows - 1, MaxBands - 1) :
              input = [build |-> build,
                       bands |-> bandsFrom(build, gaps, 1, 0)]
    /\ result = Null

MergeBands ==
    /\ pc = "call"
    /\ op = "mergeBands"
    /\ result' = [bands |-> mergeBands(input.build, input.bands)]
    /\ pc' = "done"
    /\ UNCHANGED callVars

NextMerge == MergeBands

SpecMerge == InitMerge /\ [][NextMerge]_vars

MergeDone == pc = "done" /\ op = "mergeBands"

(* The input bands lying inside the returned band m.                       *)
RunOf(m) ==
    {i \in 1..Len(input.bands) :
        input.bands[i].start >= m.start /\ input.bands[i].end <= m.end}

(* Number of maximal runs of input bands with gaps within the threshold.   *)
RunCount ==
    1 + Cardinality({i \in DOMAIN gapsOf(input.bands) :
            RatLess(separationThreshold(input.build, input.bands),
                    Rat(gapsOf(input.bands)[i], 1))})

IsRunUnion(m) ==
    LET run == RunOf(m)
    IN  /\ run # {}
        /\ \A i \in run, j \in run, k \in 1..Len(input.bands) :
              (i < k /\ k < j) => k \in run
        /\ \E i \in run, j \in run :
              /\ \A k \in run : i <= k /\ k <= j
              /\ m.start = input.bands[i].start
              /\ m.end = input.bands[j].end
        /\ \A i \in run :
              (i + 1) \in run =>
                  ~RatLess(separationThreshold(input.build, input.bands),
                           Rat(gapsOf(input.bands)[i], 1))

(***************************************************************************)
(* C21.  mergeBands, given an ordered list of at least 8 row bands,        *)
(* returns at least 8 bands; it returns the input itself when there are at *)
(* most 8 bands or when the runs of bands with gaps within the separation  *)
(* threshold number fewer than 8; otherwise every returned band is the     *)
(* union of a run of consecutive input bands whose gaps are at most the    *)
(* threshold, the returned bands are in order, and every input band lies   *)
(* in exactly one of them.                                                 *)
(***************************************************************************)
C21_AtLeastEight ==
    MergeDone =>
        LET B == input.bands
            R == result.bands
        IN  /\ Len(R) >= GridRows
            /\ (Len(B) <= GridRows \/ RunCount < GridRows) => R = B
            /\ \A k \in 1..Len(R) : IsRunUnion(R[k])
            /\ \A k \in 1..(Len(R) - 1) : R[k].end <= R[k + 1].start
            /\ \A i \in 1..Len(B) :
                  Cardinality({k \in 1..Len(R) : i \in RunOf(R[k])}) = 1

(* More than 8 bands went in and a merge was accepted.                     *)
C21_Witness ==
    /\ MergeDone
    /\ Len(input.bands) > GridRows
    /\ Len(result.bands) < Len(input.bands)
    /\ Len(result.bands) >= GridRows

(***************************************************************************)
(* findBestRowGroup of src/test/scan-test.js.  Row bands are BandHeight    *)
(* tall, their centres Spacings apart; peak is the band's peak density in  *)
(* percent.  The first and the last band take any of PeakLevels, the bands *)
(* between them have MidPeak.  Fractions are exact rationals: relative     *)
(* variance is (7 Q - S^2) / S^2 for the sum S and the sum of squares Q of *)
(* the 7 spacings, and avgDensity^2 + 0.0001 is (P^2 + 64) / 640000 for    *)
(* the sum P of the 8 peaks in percent.                                    *)
(***************************************************************************)
MaxRowBands == 9

Spacings == {10, 30}

PeakLevels == {3, 4, 40}

MidPeak == 10

minDensity == Rat(35, 1000)

maxRelativeVariance == Rat(15, 100)

RECURSIVE sumSeq(_)
sumSeq(s) == IF s = <<>> THEN 0 ELSE Head(s) + sumSeq(Tail(s))

(* rowBands.slice(i, i + 8), i 0-based.                                    *)
groupAt(rowBands, i) == SubSeq(rowBands, i + 1, i + GridRows)

groupMinPeak(group) ==
    CHOOSE p \in {group[k].peak : k \in 1..Len(group)} :
        \A k \in 1..Len(group) : p <= group[k].peak

(* Spacings of the centres, in half pixels.                                *)
spacingsOf(group) ==
    [j \in 1..(Len(group) - 1) |-> group[j + 1].center2 - group[j].center2]

avgSpacing(group) ==
    Rat(sumSeq(spacingsOf(group)), 2 * Len(spacingsOf(group)))

relativeVariance(group) ==
    LET sp == spacingsOf(group)
        n  == Len(sp)
        S  == sumSeq(sp)
        Q  == sumSeq([j \in 1..n |-> sp[j] * sp[j]])
    IN  Rat(n * Q - S * S, S * S)

(* 640000 * (avgDensity^2 + 0.0001)                                        *)
densityTerm(group) ==
    LET P == sumSeq([k \in 1..Len(group) |-> group[k].peak])
    IN  P * P + 64

(* score(g) < score(h) for score = relativeVariance / (avgDensity^2 +      *)
(* 0.0001).                                                                *)
scoreLess_varianceOnly(g, h) ==
    RatLess(relativeVariance(g), relativeVariance(h))

scoreLess(g, h) ==
    relativeVariance(g).num * relativeVariance(h).den * densityTerm(h)
        < relativeVariance(h).num * relativeVariance(g).den * densityTerm(g)

passesLimits(group, minD) ==
    /\ ~RatLess(Rat(groupMinPeak(group), 100), minD)
    /\ ~RatLess(maxRelativeVariance, relativeVariance(group))

bestGroupOf(rowBands, i) ==
    [rows |-> groupAt(rowBands, i), startIdx |-> i,
     spacing |-> avgSpacing(groupAt(rowBands, i)),
     score |-> relativeVariance(groupAt(rowBands, i))]

RECURSIVE groupScan(_, _, _, _)
groupScan(rowBands, minD, i, bestGroup) ==
    IF i > Len(rowBands) - GridRows THEN bestGroup
    ELSE IF /\ passesLimits(groupAt(rowBands, i), minD)
            /\ \/ bestGroup = Null
               \/ scoreLess(groupAt(rowBands, i), bestGroup.rows)
         THEN groupScan(rowBands, minD, i + 1, bestGroupOf(rowBands, i))
         ELSE groupScan(rowBands, minD, i + 1, bestGroup)

findBestRowGroup(rowBands, minD) ==
    IF Len(rowBands) < GridRows THEN Null
    ELSE groupScan(rowBands, minD, 0, Null)

RECURSIVE rowBandsFrom(_, _, _, _)
rowBandsFrom(spacings, peaks, i, start) ==
    LET band == [start |-> start, end |-> start + BandHeight,
                 center2 |-> 2 * start + BandHeight, peak |-> peaks[i]]
    IN  IF i > Len(spacings) THEN <<band>>
        ELSE <<band>> \o rowBandsFrom(spacings, peaks, i + 1,
                                      start + spacings[i])

InitGroup ==
    /\ pc = "call"
    /\ op = "findBestRowGroup"
    /\ NoMatcherCall
    /\ NoLibrary
    /\ NoApp
    /\ \E first \in PeakLevels, last \in PeakLevels :
          \E spacings \in SeqsOf(Spacings, GridRows - 1, MaxRowBands - 1) :
              LET n == Len(spacings) + 1
                  peaks == [i \in 1..n |->
                               IF i = 1 THEN first
                               ELSE IF i = n THEN last ELSE MidPeak]
              IN  input = [rowBands |-> rowBandsFrom(spacings, peaks, 1, 0),
                           minDensity |-> minDensity]
    /\ result = Null

FindBestRowGroup ==
    /\ pc = "call"
    /\ op = "findBestRowGroup"
    /\ result' = [bestGroup |->
                     findBestRowGroup(input.rowBands, input.minDensity)]
    /\ pc' = "done"
    /\ UNCHANGED callVars

NextGroup == FindBestRowGroup

SpecGroup == InitGroup /\ [][NextGroup]_vars

GroupDone == pc = "done" /\ op = "findBestRowGroup"

(* Start indices of the runs of 8 consecutive bands passing both limits.   *)
PassingRuns ==
    {i \in 0..(Len(input.rowBands) - GridRows) :
        passesLimits(groupAt(input.rowBands, i), input.minDensity)}

Run(i) == groupAt(input.rowBands, i)

PeakSum(group) == sumSeq([k \in 1..Len(group) |-> group[k].peak])

(* relativeVariance / (avgDensity^2 + 0.0001) of g is below that of h,     *)
(* with avgDensity = PeakSum / 800.                                        *)
QuotientLess(g, h) ==
    LET vg == relativeVariance(g)
        vh == relativeVariance(h)
    IN  vg.num * vh.den * (PeakSum(h) * PeakSum(h) + 64)
            < vh.num * vg.den * (PeakSum(g) * PeakSum(g) + 64)

(***************************************************************************)
(* C22 as stated.  findBestRowGroup returns null exactly when no run of 8  *)
(* consecutive bands passes the limits; otherwise it returns the passing   *)
(* run of smallest relative spacing variance and, among passing runs of    *)
(* equal variance, one of highest text density.                            *)
(***************************************************************************)
C22_Original ==
    GroupDone =>
        LET best == result.bestGroup
        IN  /\ (best = Null) <=> (PassingRuns = {})
            /\ best # Null =>
                  /\ best.startIdx \in PassingRuns
                  /\ \A j \in PassingRuns :
                        /\ ~RatLess(relativeVariance(Run(j)), best.score)
                        /\ relativeVariance(Run(j)) = best.score =>
                              PeakSum(Run(j)) <= PeakSum(best.rows)

(***************************************************************************)
(* C22 amended.  findBestRowGroup returns null exactly when no run of 8    *)
(* consecutive bands passes the limits; otherwise it returns a passing run *)
(* for which relativeVariance / (avgDensity^2 + 0.0001) is smallest: no    *)
(* passing run has a smaller quotient.  A denser run can therefore win     *)
(* over a more regular one.                                                *)
(***************************************************************************)
C22_LowestQuotient ==
    GroupDone =>
        LET best == result.bestGroup
        IN  /\ (best = Null) <=> (PassingRuns = {})
            /\ best # Null =>
                  /\ best.startIdx \in PassingRuns
                  /\ best.rows = Run(best.startIdx)
                  /\ best.score = relativeVariance(best.rows)
                  /\ \A j \in PassingRuns : ~QuotientLess(Run(j), best.rows)

(* Two runs pass and the denser, less regular one was returned.            *)
C22_Witness ==
    /\ GroupDone
    /\ result.bestGroup # Null
    /\ \E j \in PassingRuns :
          /\ RatLess(relativeVariance(Run(j)), result.bestGroup.score)
          /\ PeakSum(Run(j)) < PeakSum(result.bestGroup.rows)

(***************************************************************************)
(* findTargetBand of src/test/scan-test.js.  The pixels enter through what *)
(* the function measures on each band above the grid: peakVar, the largest *)
(* column variance of the band, and tLeft, tRight, the first and the last  *)
(* column whose variance is above a tenth of it (-1 when the band is       *)
(* flat).  The grid spans columns TrimLeft..TrimRight and its rows are     *)
(* GridSpacing apart; the bands above it are AboveSpacings apart.          *)
(***************************************************************************)
MaxAbove == 4

TrimLeft == 0

TrimRight == 20

GridSpacing == 10

AboveSpacings == {10, 50}

BandMeasures ==
    {[peakVar |-> 50, tLeft |-> 6, tRight |-> 14],
     [peakVar |-> 50, tLeft |-> 4, tRight |-> 12],
     [peakVar |-> 50, tLeft |-> 0, tRight |-> 20],
     [peakVar |-> 0, tLeft |-> -1, tRight |-> -1]}

TargetPeaks == {5, 10}

Abs(x) == IF x < 0 THEN -x ELSE x

(* widthRatio >= 0.20 && widthRatio <= 0.65 && centerOffset < 0.3, with    *)
(* centerOffset = |(tLeft + tRight) / 2 - (gridLeft + gridRight) / 2| /    *)
(* gridWidth.                                                              *)
isCandidate(m, gridLeft, gridRight) ==
    LET gridWidth  == gridRight - gridLeft
        widthRatio == Rat(m.tRight - m.tLeft, gridWidth)
        centerOffset ==
            Rat(Abs((m.tLeft + m.tRight) - (gridLeft + gridRight)),
                2 * gridWidth)
    IN  /\ ~RatLess(widthRatio, Rat(20, 100))
        /\ ~RatLess(Rat(65, 100), widthRatio)
        /\ RatLess(centerOffset, Rat(3, 10))

(* One pass of the loop body for band i (0-based); measures[i + 1] is what *)
(* the pixel loops find on it.  Returns the candidates so far, in the      *)
(* order pushed.                                                           *)
RECURSIVE candidateScan(_, _, _, _, _, _, _)
candidateScan(rowBands, bestGroup, measures, gridLeft, gridRight, i, acc) ==
    IF i < 0 THEN acc
    ELSE LET band == rowBands[i + 1]
             m    == measures[i + 1]
             gapFromGrid2 == bestGroup.rows[1].center2 - band.center2
         IN  IF RatLess(Rat(8 * bestGroup.spacing.num, bestGroup.spacing.den),
                        Rat(gapFromGrid2, 2))
             THEN acc
             ELSE IF \/ band.end - band.start < 2
                     \/ m.peakVar < 5
                     \/ m.tLeft < 0
                     \/ m.tRight <= m.tLeft
                     \/ ~isCandidate(m, gridLeft, gridRight)
             THEN candidateScan(rowBands, bestGroup, measures, gridLeft,
                                gridRight, i - 1, acc)
             ELSE candidateScan(rowBands, bestGroup, measures, gridLeft,
                                gridRight, i - 1,
                                Append(acc, [bandIdx |-> i, tLeft |-> m.tLeft,
                                             tRight |-> m.tRight,
                                             peak |-> band.peak]))

(* candidates.sort((a, b) => a.bandIdx - b.bandIdx)                        *)
insertByIdx(s, x) ==
    LET k == Cardinality({i \in 1..Len(s) : s[i].bandIdx <= x.bandIdx})
    IN  SubSeq(s, 1, k) \o <<x>> \o SubSeq(s, k + 1, Len(s))

RECURSIVE sortByIdx(_)
sortByIdx(s) ==
    IF s = <<>> THEN <<>> ELSE insertByIdx(sortByIdx(Tail(s)), Head(s))

firstBest(c) ==
    [bestStart |-> c.bandIdx, bestEnd |-> c.bandIdx, bestLeft |-> c.tLeft,
     bestRight |-> c.tRight, bestPeak |-> c.peak]

RECURSIVE targetMerge(_, _, _)
targetMerge(candidates, c, best) ==
    IF c > Len(candidates) THEN best
    ELSE IF candidates[c].bandIdx = candidates[c - 1].bandIdx + 1
         THEN targetMerge(candidates, c + 1,
                 [best EXCEPT
                     !.bestEnd = candidates[c].bandIdx,
                     !.bestLeft = Min2(best.bestLeft, candidates[c].tLeft),
                     !.bestRight = Max2(best.bestRight, candidates[c].tRight),
                     !.bestPeak = Max2(best.bestPeak, candidates[c].peak)])
         ELSE IF candidates[c].peak > best.bestPeak
         THEN targetMerge(candidates, c + 1, firstBest(candidates[c]))
         ELSE targetMerge(candidates, c + 1, best)

findTargetBand(rowBands, bestGroup, measures, gridLeft, gridRight) ==
    LET candidates ==
            sortByIdx(candidateScan(rowBands, bestGroup, measures, gridLeft,
                                    gridRight, bestGroup.startIdx - 1, <<>>))
    IN  IF Len(candidates) = 0 THEN Null
        ELSE LET best == targetMerge(candidates, 2, firstBest(candidates[1]))
             IN  [bandIdx |-> best.bestStart, bandEndIdx |-> best.bestEnd,
                  tLeft |-> best.bestLeft, tRight |-> best.bestRight]

InitTarget ==
    /\ pc = "call"
    /\ op = "findTargetBand"
    /\ NoMatcherCall
    /\ NoLibrary
    /\ NoApp
    /\ \E above \in AboveSpacings :
          \E measures \in SeqsOf(BandMeasures, 1, MaxAbove) :
              \E peaks \in [1..Len(measures) -> TargetPeaks] :
                  LET n == Len(measures)
                      rowBands ==
                          rowBandsFrom(
                              [i \in 1..(n + GridRows - 1) |->
                                  IF i <= n THEN above ELSE GridSpacing],
                              [i \in 1..(n + GridRows) |->
                                  IF i <= n THEN peaks[i] ELSE MidPeak],
                              1, 0)
                  IN  input = [rowBands |-> rowBands,
                               bestGroup |-> bestGroupOf(rowBands, n),
                               measures |-> measures,
                               gridLeft |-> TrimLeft,
                               gridRight |-> TrimRight]
    /\ result = Null

FindTargetBand ==
    /\ pc = "call"
    /\ op = "findTargetBand"
    /\ result' = [target |->
                     findTargetBand(input.rowBands, input.bestGroup,
                                    input.measures, input.gridLeft,
                                    input.gridRight)]
    /\ pc' = "done"
    /\ UNCHANGED callVars

NextTarget == FindTargetBand

SpecTarget == InitTarget /\ [][NextTarget]_vars

TargetDone == pc = "done" /\ op = "findTargetBand"

(* Band i (0-based) has an ink extent 20-65% of the grid width, centred    *)
(* within 30% of the grid centre.                                          *)
Qualifies(i) ==
    LET m == input.measures[i + 1]
        gridWidth == input.gridRight - input.gridLeft
    IN  /\ m.tLeft >= 0
        /\ m.tRight > m.tLeft
        /\ 100 * (m.tRight - m.tLeft) >= 20 * gridWidth
        /\ 100 * (m.tRight - m.tLeft) <= 65 * gridWidth
        /\ 10 * Abs((m.tLeft + m.tRight)
                      - (input.gridLeft + input.gridRight)) < 6 * gridWidth

TargetRun == result.target.bandIdx .. result.target.bandEndIdx

(***************************************************************************)
(* C23.  The target region returned by findTargetBand is a run of          *)
(* consecutive row bands above the grid's first row band, every band of    *)
(* the run qualified as a candidate, and tLeft and tRight are the smallest *)
(* left and the largest right extent of exactly the bands of the run.      *)
(***************************************************************************)
C23_Original ==
    (TargetDone /\ result.target # Null) =>
        /\ TargetRun # {}
        /\ \A i \in TargetRun : i >= 0 /\ i < input.bestGroup.startIdx
        /\ \A i \in TargetRun : Qualifies(i)
        /\ \E i \in TargetRun :
              input.measures[i + 1].tLeft = result.target.tLeft
        /\ \E i \in TargetRun :
              input.measures[i + 1].tRight = result.target.tRight
        /\ \A i \in TargetRun :
              /\ result.target.tLeft <= input.measures[i + 1].tLeft
              /\ input.measures[i + 1].tRight <= result.target.tRight

(***************************************************************************)
(* App.scan (src/app.js, the same in src/unnamed/part_005).  scan is       *)
(* synchronous: one action runs it from its first statement to the end of  *)
(* its finally block.  app holds the App fields and the DOM state scan     *)
(* writes:                                                                 *)
(*   cameraRunning, templatesReady   the module's flags                    *)
(*   status          the class setStatus gives the status dot              *)
(*   disabled        btnStart.disabled                                     *)
(*   btnText         btnStart.textContent                                  *)
(*   stopHidden      btnStop has the class hidden                          *)
(*   overlay         <<>> when clear, <<position>> when a result is drawn  *)
(*   positionShown   positionEl is displayed                               *)
(* The environment of one run is a record env:                             *)
(*   frame      Camera.captureFrame returns a frame (not null)             *)
(*   det        what Detector.detect returns: Null or the cell counts      *)
(*   text       for every charset what findMatchByText returns             *)
(*   pixel      what findMatch returns                                     *)
(*   throwsAt   the step that throws when reached, "none" for no throw     *)
(***************************************************************************)
MaxCharsets == 2

ScanSteps ==
    {"none", "generate", "captureFrame", "detect", "extract", "identify",
     "drawResult", "drawDebugCells"}

ExactText == matchResult(3, 10, 0, One)

TextOutcomes ==
    {Null, ExactText, matchResult(13, 10, 1, MinConfidence),
     matchResult(23, 10, 2, Rat(1, 2))}

PixelOutcomes ==
    {Null, matchResult(43, 10, 1, Zero), matchResult(43, 10, 1, Rat(1, 4)),
     matchResult(43, 10, 1, One)}

Detections ==
    {Null, [gc |-> 80, tc |-> 4], [gc |-> 80, tc |-> 0],
     [gc |-> 20, tc |-> 4]}

setStatus(a, type) == [a EXCEPT !.status = type]

(* Lines 155-182: the best text match over the charsets, replaced only by  *)
(* a strictly smaller score.                                               *)
RECURSIVE charsetScan(_, _, _)
charsetScan(text, ci, best) ==
    IF ci > Len(text) THEN best
    ELSE IF /\ text[ci] # Null
            /\ (best = Null \/ text[ci].score < best.match.score)
         THEN charsetScan(text, ci + 1, [match |-> text[ci], charset |-> ci])
         ELSE charsetScan(text, ci + 1, best)

(* Lines 184-207.                                                          *)
pickWinner(best, pixelMatch) ==
    IF best # Null /\ best.match.score = 0
    THEN [match |-> best.match, method |-> "exact"]
    ELSE IF best # Null /\ pixelMatch # Null
    THEN IF ~RatLess(best.match.confidence, pixelMatch.confidence)
         THEN [match |-> best.match, method |-> "fuzzy"]
         ELSE [match |-> pixelMatch, method |-> "pixel"]
    ELSE IF best # Null
    THEN [match |-> best.match, method |-> "fuzzy"]
    ELSE IF pixelMatch # Null
    THEN [match |-> pixelMatch, method |-> "pixel"]
    ELSE [match |-> Null, method |-> ""]

NoWinner == [match |-> Null, method |-> ""]

(* The try block.  completion is how it ends: "return", "throw" or         *)
(* "normal"; winner is what lines 184-207 chose, NoWinner before them.     *)
tryBlock(a, env) ==
    LET thrown(a1)   == [app |-> a1, completion |-> "throw",
                         winner |-> NoWinner]
        returned(a1) == [app |-> a1, completion |-> "return",
                         winner |-> NoWinner]
        ready == [a EXCEPT !.templatesReady = TRUE]
        winner == pickWinner(charsetScan(env.text, 1, Null), env.pixel)
        shown == [ready EXCEPT !.overlay = <<winner.match.position>>,
                               !.positionShown = TRUE,
                               !.status = "tracking"]
        after == IF winner.match # Null THEN shown
                 ELSE setStatus(ready, "error")
    IN  IF ~a.templatesReady /\ env.throwsAt = "generate" THEN thrown(a)
        ELSE IF env.throwsAt = "captureFrame" THEN thrown(ready)
        ELSE IF ~env.frame THEN returned(setStatus(ready, "error"))
        ELSE IF env.throwsAt = "detect" THEN thrown(ready)
        ELSE IF env.det = Null THEN returned(setStatus(ready, "error"))
        ELSE IF env.det.gc < 30 \/ env.det.tc < 3
        THEN returned(setStatus(ready, "error"))
        ELSE IF env.throwsAt \in {"extract", "identify"} THEN thrown(ready)
        ELSE IF winner.match # Null /\ env.throwsAt = "drawResult"
        THEN [app |-> ready, completion |-> "throw", winner |-> winner]
        ELSE IF env.throwsAt = "drawDebugCells"
        THEN [app |-> after, completion |-> "throw", winner |-> winner]
        ELSE [app |-> after, completion |-> "normal", winner |-> winner]

(* catch (err) { ...; setStatus('error', 'Scan failed'); }                 *)
catchBlock(t) ==
    IF t.completion = "throw" THEN setStatus(t.app, "error") ELSE t.app

(* Faulty variant: the button is re-enabled by a statement after the try   *)
(* statement, which an early return skips.                                 *)
finallyBlock_afterTry(a, completion) ==
    IF completion = "return" THEN a ELSE [a EXCEPT !.disabled = FALSE]

(* finally { btnStart.disabled = false; }                                  *)
finallyBlock(a, completion) == [a EXCEPT !.disabled = FALSE]

(* Lines 89-93, before the try statement.                                  *)
scanStart(a) ==
    [a EXCEPT !.status = "detecting", !.overlay = <<>>,
              !.positionShown = FALSE, !.disabled = TRUE]

scan(a, env) ==
    LET t == tryBlock(scanStart(a), env)
    IN  [app |-> finallyBlock(catchBlock(t), t.completion),
         winner |-> t.winner,
         completion |-> t.completion]

ScanEnvs ==
    [frame : BOOLEAN, det : Detections,
     text : SeqsOf(TextOutcomes, MaxCharsets, MaxCharsets),
     pixel : PixelOutcomes, throwsAt : ScanSteps]

InitScan ==
    /\ pc = "call"
    /\ op = "scan"
    /\ NoMatcherCall
    /\ NoLibrary
    /\ input \in ScanEnvs
    /\ \E ready \in BOOLEAN, status \in {"idle", "tracking", "error"} :
          app = [cameraRunning |-> TRUE, templatesReady |-> ready,
                 status |-> status, disabled |-> FALSE, btnText |-> "SCAN",
                 stopHidden |-> FALSE, overlay |-> <<>>,
                 positionShown |-> FALSE]
    /\ camera = Null
    /\ ocr = Null
    /\ result = Null

Scan ==
    /\ pc = "call"
    /\ op = "scan"
    /\ app' = scan(app, input).app
    /\ result' = [winner |-> scan(app, input).winner,
                  completion |-> scan(app, input).completion]
    /\ pc' = "done"
    /\ UNCHANGED <<op, targetCodes, gridCodes, targetCells, gridCells,
                   ensemble, totalCells, input, generated, synthesized,
                   camera, ocr>>

NextScan == Scan

SpecScan == InitScan /\ [][NextScan]_vars

ScanDone == pc = "done" /\ op = "scan"

(* The run got as far as choosing the final match.                         *)
ScanChose ==
    /\ ScanDone
    /\ input.frame
    /\ input.det # Null
    /\ input.det.gc >= 30
    /\ input.det.tc >= 3
    /\ input.throwsAt \notin {"captureFrame", "detect", "extract", "identify"}
    /\ app.templatesReady

TextMatches == {input.text[ci] : ci \in 1..Len(input.text)} \ {Null}

(***************************************************************************)
(* C24.  In App.scan the final match is chosen in strict priority order:   *)
(* if any charset gave a text match of score 0, a text match of score 0 is *)
(* chosen; otherwise, if any charset gave a text match, a text match of    *)
(* the lowest score is chosen; the pixel match is chosen only when no      *)
(* charset gave a text match.                                              *)
(***************************************************************************)
C24_Original ==
    ScanChose =>
        LET chosen == result.winner
        IN  /\ (\E m \in TextMatches : m.score = 0) =>
                  chosen.method = "exact" /\ chosen.match.score = 0
            /\ (TextMatches # {} /\ \A m \in TextMatches : m.score # 0) =>
                  /\ chosen.method = "fuzzy"
                  /\ chosen.match \in TextMatches
                  /\ \A m \in TextMatches : chosen.match.score <= m.score
            /\ chosen.method = "pixel" => TextMatches = {}

(***************************************************************************)
(* C25.  Every run of App.scan, whichever way it leaves the try block (no  *)
(* frame, grid not found, too few cells, match, no match, an exception in  *)
(* any step), ends with btnStart enabled and the status 'tracking' or      *)
(* 'error', never 'detecting'.                                             *)
(***************************************************************************)
C25_ButtonReenabled ==
    ScanDone =>
        /\ ~app.disabled
        /\ app.status \in {"tracking", "error"}
        /\ app.status = "tracking" <=>
              /\ result.completion = "normal"
              /\ result.winner.match # Null

(* A run that left the try block by an early return.                      *)
C25_Witness ==
    /\ ScanDone
    /\ result.completion = "return"
    /\ ~app.disabled
    /\ app.status = "error"

(***************************************************************************)
(* App (src/app.js) with Camera (src/unnamed/part_002): the asynchronous   *)
(* handlers.  A task is one call of an async function: task 0 is the       *)
(* autoStartCamera call of App.init, tasks 1..MaxTaps are the handleStart  *)
(* calls of the START taps.  pc[t].at is where task t stands:              *)
(*   "idle"           not called yet                                       *)
(*   "getUserMedia"   in Camera.start, awaiting getUserMedia               *)
(*   "play"           in Camera.start, awaiting videoEl.play()             *)
(*   "done"           returned                                             *)
(* and pc[t].stream is the stream the task's Camera.start acquired (0:     *)
(* none).  A handler runs without interruption from one await to the next; *)
(* what follows the resolution of Camera.start in the caller runs in the   *)
(* same step, as microtasks do.  camera holds the Camera module and the    *)
(* media it touches:                                                       *)
(*   stream       <<>> for null, <<s>> for stream s                        *)
(*   srcObject    videoEl.srcObject, likewise                              *)
(*   live         the streams with a track that was never stopped          *)
(*   acquired     how many streams getUserMedia has handed out             *)
(* A pending play() is rejected once videoEl.srcObject is assigned again   *)
(* (the media element reloads), otherwise it resolves.  op is the last     *)
(* handler the user or the page load invoked, and input.scansSinceStop     *)
(* counts the calls of scan since then when that handler is handleStop.    *)
(***************************************************************************)
MaxTaps == 2

Tasks == 0..MaxTaps

(* Camera.stop                                                             *)
cameraStop(c) ==
    [c EXCEPT !.live = IF c.stream # <<>> THEN c.live \ {c.stream[1]}
                       ELSE c.live,
              !.stream = <<>>,
              !.srcObject = <<>>]

(* Camera.start from the resolution of getUserMedia to the next await.     *)
cameraGranted(c) ==
    [c EXCEPT !.acquired = c.acquired + 1,
              !.live = c.live \cup {c.acquired + 1},
              !.stream = <<c.acquired + 1>>,
              !.srcObject = <<c.acquired + 1>>]

(* Camera.captureFrame returns a frame: the video element plays a stream.  *)
hasFrame(c) == c.srcObject # <<>> /\ c.srcObject[1] \in c.live

(* The runs of scan the handlers are followed through: an exact text match *)
(* drawn at its position, or no grid found.                                *)
AppScanEnvs(c) ==
    {[frame |-> hasFrame(c), det |-> d,
      text |-> [ci \in 1..MaxCharsets |-> IF ci = 1 THEN ExactText ELSE Null],
      pixel |-> Null, throwsAt |-> "none"] : d \in {Null, [gc |-> 80, tc |-> 4]}}

(* handleStart after its if statement: lines 67-69.                        *)
startScan(a, env) ==
    scan([a EXCEPT !.btnText = "SCAN", !.stopHidden = FALSE], env).app

(* autoStartCamera after Camera.start resolved: lines 31-34.               *)
autoStarted(a) ==
    [a EXCEPT !.cameraRunning = TRUE, !.btnText = "SCAN",
              !.stopHidden = FALSE, !.status = "idle"]

(* handleStop, lines 72-81, on the App side.                               *)
handleStop(a) ==
    [a EXCEPT !.cameraRunning = FALSE, !.btnText = "START",
              !.stopHidden = TRUE, !.positionShown = FALSE,
              !.overlay = <<>>, !.status = "idle"]

appVars == <<targetCodes, gridCodes, targetCells, gridCells, ensemble,
             totalCells, generated, synthesized, ocr, result>>

scanCalled == input' = [scansSinceStop |-> input.scansSinceStop + 1]

InitApp ==
    /\ pc = [t \in Tasks |->
                IF t = 0 THEN [at |-> "getUserMedia", stream |-> 0]
                ELSE [at |-> "idle", stream |-> 0]]
    /\ op = "init"
    /\ NoMatcherCall
    /\ NoLibrary
    /\ input = [scansSinceStop |-> 0]
    /\ app = [cameraRunning |-> FALSE, templatesReady |-> FALSE,
              status |-> "idle", disabled |-> FALSE, btnText |-> "START",
              stopHidden |-> TRUE, overlay |-> <<>>,
              positionShown |-> FALSE]
    /\ camera = [stream |-> <<>>, srcObject |-> <<>>, live |-> {},
                 acquired |-> 0]
    /\ ocr = Null
    /\ result = Null

(* A tap on START: handleStart up to its first await, or to its end when   *)
(* the camera is running.                                                  *)
TapStart ==
    \E t \in Tasks \ {0} :
        /\ pc[t].at = "idle"
        /\ \A u \in 1..(t - 1) : pc[u].at # "idle"
        /\ ~app.disabled
        /\ op' = "handleStart"
        /\ IF app.cameraRunning
           THEN /\ \E env \in AppScanEnvs(camera) :
                      app' = startScan(app, env)
                /\ scanCalled
                /\ pc' = [pc EXCEPT ![t].at = "done"]
           ELSE /\ pc' = [pc EXCEPT ![t].at = "getUserMedia"]
                /\ UNCHANGED <<app, input>>
        /\ UNCHANGED <<camera, appVars>>

(* A tap on STOP, which is visible: handleStop.                            *)
TapStop ==
    /\ ~app.stopHidden
    /\ op' = "handleStop"
    /\ camera' = cameraStop(camera)
    /\ app' = handleStop(app)
    /\ input' = [scansSinceStop |-> 0]
    /\ UNCHANGED <<pc, appVars>>

(* getUserMedia resolves for task t.                                       *)
Granted(t) ==
    /\ pc[t].at = "getUserMedia"
    /\ camera.acquired <= MaxTaps
    /\ camera' = cameraGranted(camera)
    /\ pc' = [pc EXCEPT ![t] = [at |-> "play", stream |-> camera.acquired + 1]]
    /\ UNCHANGED <<op, app, input, appVars>>

(* getUserMedia rejects for task t: the catch block of the caller.         *)
Denied(t) ==
    /\ pc[t].at = "getUserMedia"
    /\ app' = IF t = 0 THEN setStatus(app, "idle") ELSE setStatus(app, "error")
    /\ pc' = [pc EXCEPT ![t].at = "done"]
    /\ UNCHANGED <<op, camera, input, appVars>>

(* videoEl.play() resolves for task t: Camera.start returns and the caller *)
(* continues.                                                              *)
Playing(t) ==
    /\ pc[t].at = "play"
    /\ camera.srcObject = <<pc[t].stream>>
    /\ IF t = 0
       THEN /\ app' = autoStarted(app)
            /\ UNCHANGED input
       ELSE /\ \E env \in AppScanEnvs(camera) :
                  app' = startScan([app EXCEPT !.cameraRunning = TRUE], env)
            /\ scanCalled
    /\ pc' = [pc EXCEPT ![t].at = "done"]
    /\ UNCHANGED <<op, camera, appVars>>

(* videoEl.play() rejects for task t, the element having been given        *)
(* another srcObject: the catch block of the caller.                       *)
PlayRejected(t) ==
    /\ pc[t].at = "play"
    /\ camera.srcObject # <<pc[t].stream>>
    /\ app' = IF t = 0 THEN setStatus(app, "idle") ELSE setStatus(app, "error")
    /\ pc' = [pc EXCEPT ![t].at = "done"]
    /\ UNCHANGED <<op, camera, input, appVars>>

NextApp ==
    \/ TapStart
    \/ TapStop
    \/ \E t \in Tasks : Granted(t)
    \/ \E t \in Tasks : Denied(t)
    \/ \E t \in Tasks : Playing(t)
    \/ \E t \in Tasks : PlayRejected(t)

SpecApp == InitApp /\ [][NextApp]_vars

(***************************************************************************)
(* C26.  However the calls of Camera.start interleave, at most one camera  *)
(* stream is live at any time, and after handleStop, until Camera.start    *)
(* acquires another stream, no stream is live.                             *)
(***************************************************************************)
C26_Original ==
    /\ Cardinality(camera.live) <= 1
    /\ (op = "handleStop" /\ camera.stream = <<>>) => camera.live = {}

(***************************************************************************)
(* C27.  Once handleStop has run and the user taps nothing further, the    *)
(* app stays stopped: cameraRunning is false, no camera stream is live,    *)
(* the button reads START, and no scan is called or draws a result, even   *)
(* if a Camera.start was pending when STOP was tapped.                     *)
(***************************************************************************)
C27_Original ==
    op = "handleStop" =>
        /\ ~app.cameraRunning
        /\ camera.live = {}
        /\ app.btnText = "START"
        /\ input.scansSinceStop = 0
        /\ app.overlay = <<>>
        /\ ~app.positionShown

(***************************************************************************)
(* The worker life cycle of the OCR module: init, switchLang and terminate *)
(* of src/ocr.js, init and terminate of src/unnamed/part_000.  Every call  *)
(* is a task; pc[t] is a record:                                           *)
(*   at     "idle"          not called yet                                 *)
(*          "terminate"     init or switchLang awaiting worker.terminate() *)
(*          "createWorker"  init or switchLang awaiting createWorker       *)
(*          "terminating"   terminate awaiting worker.terminate()          *)
(*          "done", "threw" returned, or rejected with the error of the    *)
(*                          await                                          *)
(*   fn     the function called                                            *)
(*   lang   the language it loads                                          *)
(*   w      the worker whose terminate() it awaits (0: none)               *)
(* ocr holds the module's variables and the workers of the engine:         *)
(*   worker        <<>> for null, <<w>> for worker w                       *)
(*   initialized, currentLang   as in the source ('' in part_000, which    *)
(*                 has no currentLang)                                     *)
(*   langOf        langOf[w] is the language worker w was created with;    *)
(*                 its length is the number of workers created             *)
(*   alive         the workers created and not terminated                  *)
(*   overlapped    some call began while another was suspended             *)
(* createWorker and worker.terminate() can reject; a worker is terminated  *)
(* when its terminate() resolves.                                          *)
(***************************************************************************)
MaxOcrCalls == 2

OcrTasks == 1..MaxOcrCalls

InitArgs == {"", "ell"}

SwitchArgs == {"eng", "ell"}

(* lang = lang || 'eng' in src/ocr.js; part_000 always loads 'eng+ell'.    *)
initLang(build, lang) ==
    IF build = "src/unnamed/part_000" THEN "eng+ell"
    ELSE IF lang = "" THEN "eng" ELSE lang

(* The early return of init and switchLang.                                *)
alreadyLoaded(o, lang) ==
    IF o.build = "src/unnamed/part_000" THEN o.initialized
    ELSE o.initialized /\ o.currentLang = lang

(* if (worker) await worker.terminate(); -- only in src/ocr.js.            *)
terminatesFirst(o) == o.build = "src/ocr.js" /\ o.worker # <<>>

(* worker = <the new worker>; currentLang = lang; initialized = true;      *)
workerCreated(o, lang) ==
    LET w == Len(o.langOf) + 1
    IN  [o EXCEPT !.langOf = Append(o.langOf, lang),
                  !.alive = o.alive \cup {w},
                  !.worker = <<w>>,
                  !.currentLang = IF o.build = "src/ocr.js" THEN lang
                                  ELSE o.currentLang,
                  !.initialized = TRUE]

(* terminate after its await: worker = null; initialized = false; ...      *)
terminated(o) ==
    [o EXCEPT !.worker = <<>>, !.initialized = FALSE, !.currentLang = ""]

Suspended(t) == pc[t].at \in {"terminate", "createWorker", "terminating"}

NextTask(t) ==
    /\ pc[t].at = "idle"
    /\ \A u \in 1..(t - 1) : pc[u].at # "idle"

noteOverlap(o) ==
    [o EXCEPT !.overlapped = o.overlapped \/ \E u \in OcrTasks : Suspended(u)]

ocrVars == <<targetCodes, gridCodes, targetCells, gridCells, ensemble,
             totalCells, input, generated, synthesized, app, camera, result>>

InitOcr ==
    /\ pc = [t \in OcrTasks |->
                [at |-> "idle", fn |-> "", lang |-> "", w |-> 0]]
    /\ op = "none"
    /\ NoMatcherCall
    /\ NoLibrary
    /\ input = Null
    /\ app = Null
    /\ camera = Null
    /\ \E build \in Builds :
          ocr = [build |-> build, worker |-> <<>>, initialized |-> FALSE,
                 currentLang |-> "", langOf |-> <<>>, alive |-> {},
                 overlapped |-> FALSE]
    /\ result = Null

(* init(lang) or switchLang(lang) up to its first await or its return.     *)
loadCall(t, fn, lang) ==
    /\ op' = fn
    /\ ocr' = noteOverlap(ocr)
    /\ pc' = [pc EXCEPT ![t] =
                IF alreadyLoaded(ocr, lang)
                THEN [at |-> "done", fn |-> fn, lang |-> lang, w |-> 0]
                ELSE IF terminatesFirst(ocr)
                THEN [at |-> "terminate", fn |-> fn, lang |-> lang,
                      w |-> ocr.worker[1]]
                ELSE [at |-> "createWorker", fn |-> fn, lang |-> lang,
                      w |-> 0]]
    /\ UNCHANGED ocrVars

CallInit ==
    \E t \in OcrTasks, lang \in InitArgs :
        /\ NextTask(t)
        /\ loadCall(t, "init", initLang(ocr.build, lang))

CallSwitchLang ==
    \E t \in OcrTasks, lang \in SwitchArgs :
        /\ ocr.build = "src/ocr.js"
        /\ NextTask(t)
        /\ loadCall(t, "switchLang", lang)

CallTerminate ==
    \E t \in OcrTasks :
        /\ NextTask(t)
        /\ op' = "terminate"
        /\ ocr' = noteOverlap(ocr)
        /\ pc' = [pc EXCEPT ![t] =
                    IF ocr.worker # <<>>
                    THEN [at |-> "terminating", fn |-> "terminate",
                          lang |-> "", w |-> ocr.worker[1]]
                    ELSE [at |-> "done", fn |-> "terminate", lang |-> "",
                          w |-> 0]]
        /\ UNCHANGED ocrVars

(* worker.terminate() resolves.                                            *)
TerminateResolves ==
    \E t \in OcrTasks :
        /\ pc[t].at \in {"terminate", "terminating"}
        /\ LET gone == [ocr EXCEPT !.alive = ocr.alive \ {pc[t].w}]
           IN  IF pc[t].at = "terminating"
               THEN /\ ocr' = IF ocr.build = "src/ocr.js" THEN terminated(gone)
                              ELSE [gone EXCEPT !.worker = <<>>,
                                                !.initialized = FALSE]
                    /\ pc' = [pc EXCEPT ![t].at = "done"]
               ELSE /\ ocr' = gone
                    /\ pc' = [pc EXCEPT ![t].at = "createWorker"]
        /\ UNCHANGED <<op, ocrVars>>

(* createWorker resolves with a new worker.                                *)
CreateResolves ==
    \E t \in OcrTasks :
        /\ pc[t].at = "createWorker"
        /\ ocr' = workerCreated(ocr, pc[t].lang)
        /\ pc' = [pc EXCEPT ![t].at = "done"]
        /\ UNCHANGED <<op, ocrVars>>

(* The awaited promise rejects: the call rejects where it stands.          *)
AwaitRejects ==
    \E t \in OcrTasks :
        /\ Suspended(t)
        /\ pc' = [pc EXCEPT ![t].at = "threw"]
        /\ UNCHANGED <<op, ocr, ocrVars>>

NextOcr ==
    \/ CallInit
    \/ CallSwitchLang
    \/ CallTerminate
    \/ TerminateResolves
    \/ CreateResolves
    \/ AwaitRejects

SpecOcr == InitOcr /\ [][NextOcr]_vars

(* Only init was called so far, always for the same language.              *)
OnlyInit ==
    \A t, u \in OcrTasks :
        pc[t].at # "idle" =>
            /\ pc[t].fn = "init"
            /\ pc[u].at # "idle" => pc[u].lang = pc[t].lang

(***************************************************************************)
(* C28.  However calls of OCR.init interleave, at most one Tesseract       *)
(* worker is created and none is leaked: every worker created is the       *)
(* current worker or has been terminated.                                  *)
(***************************************************************************)
C28_Original ==
    OnlyInit =>
        /\ Len(ocr.langOf) <= 1
        /\ \A w \in ocr.alive : ocr.worker = <<w>>

(* No call is suspended.                                                   *)
Quiescent == \A t \in OcrTasks : ~Suspended(t)

(***************************************************************************)
(* C29.  In src/ocr.js, after any sequence of init, switchLang and         *)
(* terminate calls made one after the other, including ones in which       *)
(* creating or terminating a worker fails: whenever initialized is true,   *)
(* worker is a live worker loaded for currentLang; and when the last call  *)
(* was a terminate that returned, worker is null, initialized is false and *)
(* currentLang is empty.                                                   *)
(***************************************************************************)
C29_Original ==
    (ocr.build = "src/ocr.js" /\ ~ocr.overlapped /\ Quiescent) =>
        /\ ocr.initialized =>
              /\ ocr.worker # <<>>
              /\ ocr.worker[1] \in ocr.alive
              /\ ocr.langOf[ocr.worker[1]] = ocr.currentLang
        /\ (op = "terminate"
              /\ \E t \in OcrTasks :
                    /\ pc[t].fn = "terminate"
                    /\ pc[t].at = "done"
                    /\ \A u \in OcrTasks : u > t => pc[u].at = "idle") =>
              /\ ocr.worker = <<>>
              /\ ~ocr.initialized
              /\ ocr.currentLang = ""

(***************************************************************************)
(* OCR.ocrGrid, in src/ocr.js and in src/unnamed/part_000.  The frame and  *)
(* the engine enter through what the function gets back for each row:      *)
(*   canvas   cropRegion returns a canvas for the row's crop               *)
(*   raw      the number of codes parseRowCodes finds in the OCR text      *)
(*   bin      the same for the text of the binarized crop                  *)
(*   dead     the columns whose single-cell OCR gives no code (part_000)   *)
(* A code is a record naming the row it was read from, the pass (src) and  *)
(* its index k in that pass; Unknown stands for '??'.  gridInfo is the     *)
(* number of its gridCells with rows and cols.  The awaits of ocrGrid are  *)
(* on the worker only and the function shares no variable with another     *)
(* handler, so one step runs it from call to return.  Rows after           *)
(* MaxReadRows read cleanly.                                               *)
(***************************************************************************)
MaxReadRows == 3

MinGridCells == 30

CleanRead == [canvas |-> TRUE, raw |-> 10, bin |-> 10, dead |-> {}]

RowReads ==
    {[canvas |-> FALSE, raw |-> 0, bin |-> 0, dead |-> {}],
     CleanRead,
     [canvas |-> TRUE, raw |-> 9, bin |-> 11, dead |-> {2}],
     [canvas |-> TRUE, raw |-> 9, bin |-> 3, dead |-> {}]}

GridInfos ==
    {[cells |-> n, rows |-> 8, cols |-> 10] : n \in {20, 30, 75, 80}}

Unknown == [src |-> "??", row |-> -1, k |-> -1]

codesOf(r, src, n) == [k \in 1..n |-> [src |-> src, row |-> r, k |-> k]]

(* getRowCrop reads gridCells[rowIdx * cols].x: a TypeError when the grid  *)
(* has no such cell.                                                       *)
rowCropThrows(gridInfo, r) == r * gridInfo.cols >= gridInfo.cells

(* ocrCellRow reads gridCells[rowIdx * cols + c] for every c < cols.       *)
cellRowThrows(gridInfo, r) == r * gridInfo.cols + gridInfo.cols > gridInfo.cells

ocrCellRow(gridInfo, r, read) ==
    [c \in 1..gridInfo.cols |->
        IF (c - 1) \in read.dead THEN Unknown
        ELSE [src |-> "cell", row |-> r, k |-> c]]

(* The codes the row is filled from, before padding; part_000 lines        *)
(* 363-385, src/ocr.js lines 370-380.                                      *)
rowCodes(build, gridInfo, r, read) ==
    LET raw == codesOf(r, "raw", read.raw)
        bin == codesOf(r, "bin", read.bin)
    IN  IF Len(raw) = gridInfo.cols THEN raw
        ELSE IF build = "src/ocr.js" THEN bin
        ELSE LET codes == IF Len(bin) = gridInfo.cols \/ Len(bin) > Len(raw)
                          THEN bin ELSE raw
             IN  IF Len(codes) # gridInfo.cols
                 THEN ocrCellRow(gridInfo, r, read)
                 ELSE codes

(* if (codes.length === cols) push(...codes) else push codes[c] || '??'    *)
padRow(codes, cols) ==
    IF Len(codes) = cols THEN codes
    ELSE [c \in 1..cols |-> IF c <= Len(codes) THEN codes[c] ELSE Unknown]

rowEntries(build, gridInfo, r, read) ==
    IF ~read.canvas THEN [c \in 1..gridInfo.cols |-> Unknown]
    ELSE padRow(rowCodes(build, gridInfo, r, read), gridInfo.cols)

rowThrows(build, gridInfo, r, read) ==
    \/ rowCropThrows(gridInfo, r)
    \/ /\ build = "src/unnamed/part_000"
       /\ read.canvas
       /\ read.raw # gridInfo.cols
       /\ ~(read.bin = gridInfo.cols)
       /\ cellRowThrows(gridInfo, r)

RECURSIVE gridRows(_, _, _, _, _)
gridRows(build, gridInfo, reads, r, allCodes) ==
    IF r >= gridInfo.rows
    THEN IF Len(allCodes) = gridInfo.rows * gridInfo.cols
         THEN [codes |-> allCodes] ELSE Null
    ELSE IF rowThrows(build, gridInfo, r, reads[r + 1])
    THEN [throws |-> "TypeError"]
    ELSE gridRows(build, gridInfo, reads, r + 1,
                  allCodes \o rowEntries(build, gridInfo, r, reads[r + 1]))

ocrGrid(build, gridInfo, reads) ==
    IF gridInfo.cells < MinGridCells THEN Null
    ELSE gridRows(build, gridInfo, reads, 0, <<>>)

InitOcrGrid ==
    /\ pc = "call"
    /\ op = "ocrGrid"
    /\ NoMatcherCall
    /\ NoLibrary
    /\ NoApp
    /\ \E build \in Builds, gridInfo \in GridInfos :
          \E first \in SeqsOf(RowReads, MaxReadRows, MaxReadRows) :
              input = [build |-> build, gridInfo |-> gridInfo,
                       reads |-> [r \in 1..gridInfo.rows |->
                                     IF r <= Len(first) THEN first[r]
                                     ELSE CleanRead]]
    /\ result = Null

OcrGrid ==
    /\ pc = "call"
    /\ op = "ocrGrid"
    /\ result' = ocrGrid(input.build, input.gridInfo, input.reads)
    /\ pc' = "done"
    /\ UNCHANGED callVars

NextOcrGrid == OcrGrid

SpecOcrGrid == InitOcrGrid /\ [][NextOcrGrid]_vars

OcrGridDone == pc = "done" /\ op = "ocrGrid"

(* The codes parsed for row r (0-based): those of the OCR text, or of the  *)
(* binarized crop's text when the first count was not cols and that text   *)
(* was taken instead; none without a canvas.                               *)
ParsedOf(r) ==
    LET read == input.reads[r + 1]
        cols == input.gridInfo.cols
    IN  IF ~read.canvas THEN <<>>
        ELSE IF read.raw = cols THEN codesOf(r, "raw", read.raw)
        ELSE IF input.build = "src/ocr.js" \/ read.bin = cols
                  \/ read.bin > read.raw
        THEN codesOf(r, "bin", read.bin)
        ELSE codesOf(r, "raw", read.raw)

====
